---- MODULE Spec2Model ----
(***************************************************************************)
(* A model of unitunes: the GUI job engine (src/gui/engine.py and the      *)
(* job handling of src/gui/main.py) and the reconciliation core            *)
(* (src/unitunes/track.py, matcher.py, searcher.py, pull_playlist.py,      *)
(* playlist.py, main.py).                                                  *)
(*                                                                         *)
(* Several specifications share the module:                                *)
(*   SpecEngine    the job queue, its worker threads and the GUI thread    *)
(*   SpecMerge     Track.merge applied to pairs of tracks                  *)
(*   SpecRecon     pull and search on a playlist and its remote playlists  *)
(*   SpecLibrary   add_playlist, pull, search and merge on two playlists   *)
(*   SpecMatch     DefaultMatcherStrategy.similarity on pairs of tracks    *)
(*   SpecSearch    DefaultSearcherStrategy.search on the answers of a      *)
(*                 service                                                 *)
(*   SpecAlias     AliasedString: its constructor, add_alias and merge     *)
(*   SpecUri       the URI classes: from_uri and from_url                  *)
(*   SpecFailure   pull_playlist with an adapter call that raises          *)
(*   SpecServices  PlaylistManager.remove_service                          *)
(*   SpecLive      the job queue under fair scheduling of the workers      *)
(*   SpecPush      pull, search and push on a playlist                     *)
(*   SpecCovers    pulls when two recordings of one title are listed       *)
(*   SpecGrow      pulls and searches while remote playlists grow          *)
(*   SpecPredict   get_prediction_track for a track with quarantined URIs  *)
(*   SpecRepair    add_changed_uris on local and fetched tracks            *)
(***************************************************************************)
EXTENDS Integers, Sequences, FiniteSets, TLC

VARIABLES
    jobs,       \* Engine._jobs: job id i is stored at index i+1
    queue,      \* Engine._queue: job ids waiting for a worker
    workers,    \* one record per Engine instance: its worker thread
    gui,        \* the GUI thread: its position inside GUI.add_job
    started,    \* history: job ids in the order they first became RUNNING
    asserted,   \* history: TRUE once an assert of engine.py has failed
    self,       \* SpecMerge: the receiver of Track.merge
    other,      \* SpecMerge: the argument of Track.merge
    self0,      \* history: the receiver before the call
    other0,     \* history: the argument before the call
    called,     \* SpecMerge: TRUE once self.merge(other) has returned
    heap,       \* SpecRecon: the Track objects, a playlist holds their indices
    playlists,  \* SpecRecon: PlaylistManager.playlists
    remote,     \* SpecRecon: the tracks of each remote playlist
    alive,      \* SpecRecon: the track URIs the Checkable service calls alive
    last,       \* history: the last operation and what it computed
    input,      \* the arguments of the call of a function under test
    output,     \* what that call returned, or the object it left behind
    index,      \* SpecServices: the names of Index.services
    configs     \* SpecServices: the names with a file in service_configs

engineVars == <<jobs, queue, workers, gui, started, asserted>>

mergeVars == <<self, other, self0, other0, called>>

reconVars == <<heap, playlists, remote, alive, last>>

callVars == <<input, output>>

serviceVars == <<index, configs>>

vars == <<jobs, queue, workers, gui, started, asserted,
          self, other, self0, other0, called,
          heap, playlists, remote, alive, last,
          input, output, index, configs>>

-----------------------------------------------------------------------------
(* Bounds *)

MaxJobs == 2
MaxEngines == 3
MaxLiveJobs == 3    \* SpecLive: most jobs pushed
MaxUris == 2        \* longest uris list of an input track of Track.merge
MaxArtists == 2     \* longest artists list of an input track of Track.merge
MaxAlbums == 1      \* longest albums list of an input track of Track.merge
MaxAliases == 1     \* longest aliases list of an input AliasedString
MaxRemote == 2      \* most tracks of a remote playlist
MaxBadUris == 1     \* longest bad_uris list a track may grow
MaxResults == 1     \* most tracks a search query returns
NumQueries == 1     \* the queries query_generator returns for a track
SearchQueries == 2  \* SpecSearch: the queries query_generator returns
SearchResults == 2  \* SpecSearch: most tracks a search query returns
MaxLimit == 3       \* SpecSearch: the largest limit of a search
MaxIdLen == 2       \* SpecUri: the longest id, in characters
MaxPushed == 3      \* SpecPush: most tracks of a remote playlist after a push
MaxCandidates == 4  \* SpecPredict: most tracks a search query returns
MaxQuarantined == 3 \* SpecPredict: longest bad_uris list of the searched track
MaxLocal == 2       \* SpecRepair: most local tracks of the playlist

-----------------------------------------------------------------------------
(* Lists *)

Range(s) == {s[i] : i \in DOMAIN s}

\* list.remove(x): the first occurrence goes
RECURSIVE Remove(_, _)
Remove(s, x) ==
    IF s = <<>> THEN <<>>
    ELSE IF Head(s) = x THEN Tail(s) ELSE <<Head(s)>> \o Remove(Tail(s), x)

\* the first occurrence of every element, in order
RECURSIVE Distinct(_)
Distinct(s) ==
    IF s = <<>> THEN <<>>
    ELSE LET h == Head(s) IN <<h>> \o Distinct(SelectSeq(Tail(s), LAMBDA x : x # h))

NoDuplicates(s) == \A i, j \in DOMAIN s : s[i] = s[j] => i = j

SeqsUpTo(S, n) == UNION {[1..k -> S] : k \in 0..n}

-----------------------------------------------------------------------------
(* src/unitunes/uri.py, src/unitunes/types.py *)

ServiceType == {"spotify", "ytm", "mb", "beatsaber"}

\* a TrackURI: value equality on service and id (the url is a function of both)
TrackURI(service, uri) == [service |-> service, uri |-> uri]

-----------------------------------------------------------------------------
(* src/unitunes/track.py *)

None == -1

\* AliasedString.__init__: duplicates are removed from aliases, then value.
\* list(set(...)) gives no particular order; the first occurrences are kept
\* in their order here.
AliasedString(value, aliases) ==
    [value |-> value,
     aliases |-> SelectSeq(Distinct(aliases), LAMBDA x : x # value)]

\* AliasedString.all_values
all_values(s) == <<s.value>> \o s.aliases

\* add_alias without its test
add_alias_unchecked(s, alias) == [s EXCEPT !.aliases = Append(@, alias)]

\* AliasedString.add_alias
add_alias(s, alias) ==
    IF alias \notin Range(all_values(s))
    THEN [s EXCEPT !.aliases = Append(@, alias)]
    ELSE s

\* AliasedString.shares_alias
shares_alias(s, o) == \E x \in Range(all_values(s)) : x \in Range(all_values(o))

RECURSIVE add_aliases(_, _)
add_aliases(s, values) ==
    IF values = <<>> THEN s
    ELSE add_aliases(add_alias(s, Head(values)), Tail(values))

\* merge of the aliases of other only
AliasedString_merge_aliases(s, o) == add_aliases(s, o.aliases)

\* AliasedString.merge: for alias in other.all_values(): self.add_alias(alias)
AliasedString_merge(s, o) == add_aliases(s, all_values(o))

\* Track: bad_uris is read and appended to by pull_playlist.py and main.py.
Track(name, albums, artists, length, uris) ==
    [name |-> name, albums |-> albums, artists |-> artists,
     length |-> length, uris |-> uris, bad_uris |-> <<>>]

\* Track.shares_uri
shares_uri(t, track) == \E u \in Range(t.uris) : u \in Range(track.uris)

\* Track.is_on_service
is_on_service(t, service) == \E u \in Range(t.uris) : u.service = service

\* Track.find_uri: the first URI on the service in a list, the empty list
\* for None
find_uri(t, service) ==
    LET on == SelectSeq(t.uris, LAMBDA u : u.service = service)
    IN IF on = <<>> THEN <<>> ELSE <<Head(on)>>

\* the loop of merge_albums / merge_artists when the argument is the receiver
\* itself (t.merge(t)): the list iterated is the list searched
RECURSIVE self_merge_list(_, _)
self_merge_list(list_, j) ==
    IF j > Len(list_) THEN list_
    ELSE LET sharing == SelectSeq(list_, LAMBDA x : shares_alias(list_[j], x))
         IN self_merge_list(
               [list_ EXCEPT ![j] = AliasedString_merge(@, Head(sharing))], j + 1)

\* Track.merge.merge_aliased_str_into_list(astr, list_): astr is an element of
\* the argument's list and list_ the receiver's list.  The first element of
\* list_ sharing an alias with astr is merged INTO astr (astr.merge(other_astr)
\* mutates astr) and list_ stays as it is; with no such element astr itself
\* is appended to list_.  The result is the pair (astr, list_) after the call.
merge_aliased_str_into_list(astr, list_) ==
    LET sharing == SelectSeq(list_, LAMBDA x : shares_alias(astr, x))
    IN IF sharing # <<>>
       THEN [astr |-> AliasedString_merge(astr, Head(sharing)), list_ |-> list_]
       ELSE [astr |-> astr, list_ |-> Append(list_, astr)]

\* Track.merge.merge_albums / merge_artists: the loop over the argument's
\* list; done is the part of the argument's list already visited.
RECURSIVE merge_list(_, _, _)
merge_list(done, todo, list_) ==
    IF todo = <<>> THEN [other |-> done, self |-> list_]
    ELSE LET r == merge_aliased_str_into_list(Head(todo), list_)
         IN merge_list(Append(done, r.astr), Tail(todo), r.list_)

merge_albums(t, other_albums) == merge_list(<<>>, other_albums, t.albums)

merge_artists(t, other_artists) == merge_list(<<>>, other_artists, t.artists)

\* merge_uris without its membership test
merge_uris_unchecked(uris, other_uris) == uris \o other_uris

\* Track.merge.merge_uris
RECURSIVE merge_uris(_, _)
merge_uris(uris, other_uris) ==
    IF other_uris = <<>> THEN uris
    ELSE merge_uris(IF Head(other_uris) \notin Range(uris)
                    THEN Append(uris, Head(other_uris)) ELSE uris,
                    Tail(other_uris))

\* Track.merge.merge_length
merge_length(length, other_length) ==
    IF other_length # None /\ length = None THEN other_length ELSE length

\* Track.merge with the receiver as its own argument
Track_self_merge(t) ==
    [t EXCEPT !.albums = self_merge_list(t.albums, 1),
              !.artists = self_merge_list(t.artists, 1)]

\* Track.merge: the receiver and the argument after t.merge(o)
Track_merge(t, o) ==
    LET albums == merge_albums(t, o.albums)
        artists == merge_artists(t, o.artists)
    IN [self |-> [t EXCEPT !.uris = merge_uris(t.uris, o.uris),
                           !.albums = albums.self,
                           !.artists = artists.self,
                           !.length = merge_length(t.length, o.length)],
        other |-> [o EXCEPT !.albums = albums.other,
                            !.artists = artists.other]]

-----------------------------------------------------------------------------
(* src/unitunes/matcher.py *)

\* the characters of the strings the matcher is applied to
Chars(s) ==
    CASE s = "Fireflies" -> <<"F", "i", "r", "e", "f", "l", "i", "e", "s">>
      [] s = "Song" -> <<"S", "o", "n", "g">>
      [] s = "Song (Remix)" -> <<"S", "o", "n", "g", " ", "(", "R", "e", "m", "i", "x", ")">>
      [] s = "Owl City" -> <<"O", "w", "l", " ", "C", "i", "t", "y">>
      [] s = "instrumental" -> <<"i", "n", "s", "t", "r", "u", "m", "e", "n", "t", "a", "l">>
      [] s = "remix" -> <<"r", "e", "m", "i", "x">>
      [] s = "cover" -> <<"c", "o", "v", "e", "r">>
      [] s = "live" -> <<"l", "i", "v", "e">>
      [] s = "version" -> <<"v", "e", "r", "s", "i", "o", "n">>
      [] s = "edit" -> <<"e", "d", "i", "t">>

UpperCase == <<"F", "S", "R", "O", "C">>

LowerCase == <<"f", "s", "r", "o", "c">>

\* str.lower on a sequence of characters
lower_chars(cs) ==
    [i \in DOMAIN cs |->
        IF \E k \in DOMAIN UpperCase : UpperCase[k] = cs[i]
        THEN LowerCase[CHOOSE k \in DOMAIN UpperCase : UpperCase[k] = cs[i]]
        ELSE cs[i]]

\* str.lower
lower(s) == lower_chars(Chars(s))

\* term in s, for sequences of characters
contains(s, term) ==
    \E i \in 1..(Len(s) - Len(term) + 1) : SubSeq(s, i, i + Len(term) - 1) = term

special_terms == <<"instrumental", "remix", "cover", "live", "version", "edit">>

\* the pair s1, s2 is the pair of the lower-cased a and b, in either order
is_pair(s1, s2, a, b) == {s1, s2} = {lower(a), lower(b)}

\* strsimpy's JaroWinkler().similarity on lower-cased strings, in thousandths
JaroWinkler(s1, s2) ==
    IF s1 = s2 THEN 1000
    ELSE CASE is_pair(s1, s2, "Fireflies", "Song") -> 0
           [] is_pair(s1, s2, "Fireflies", "Song (Remix)") -> 527
           [] is_pair(s1, s2, "Fireflies", "Owl City") -> 490
           [] is_pair(s1, s2, "Song", "Song (Remix)") -> 851
           [] is_pair(s1, s2, "Song", "Owl City") -> 458
           [] is_pair(s1, s2, "Song (Remix)", "Owl City") -> 541

\* the strings the tracks of the model are named with
Names == {"Fireflies", "Song", "Song (Remix)", "Owl City"}

\* normalized_string_similarity without its loop over special_terms
lowered_similarity_unvetoed(s1, s2) == JaroWinkler(s1, s2)

\* normalized_string_similarity, in thousandths, tabulated over Names
lowered_similarity(s1, s2) ==
    IF \E k \in DOMAIN special_terms :
          contains(s1, Chars(special_terms[k])) # contains(s2, Chars(special_terms[k]))
    THEN 0
    ELSE JaroWinkler(s1, s2)

string_similarity ==
    [s1 \in Names, s2 \in Names |-> lowered_similarity(lower(s1), lower(s2))]

normalized_string_similarity(s1, s2) == string_similarity[s1, s2]

Max(S) == CHOOSE x \in S : \A y \in S : y <= x

\* pairwise_max(a, b, f) with f = normalized_string_similarity
\* (DefaultMatcherStrategy.aliased_string_similarity)
aliased_string_similarity(s1, s2) ==
    Max({0} \cup {normalized_string_similarity(x, y) :
                     x \in Range(all_values(s1)), y \in Range(all_values(s2))})

\* pairwise_max(a, b, f) with f = aliased_string_similarity
pairwise_max(a, b) ==
    Max({0} \cup {aliased_string_similarity(x, y) : x \in Range(a), y \in Range(b)})

\* similarity.artists_similarity
artists_similarity(artists1, artists2) ==
    IF Len(artists1) = 0 \/ Len(artists2) = 0 THEN 500
    ELSE pairwise_max(artists1, artists2)

\* similarity.album_similarity
album_similarity(album1, album2) == pairwise_max(album1, album2)

Abs(x) == IF x < 0 THEN -x ELSE x

\* similarity.length_similarity: 1 - d / 5, in thousandths
length_similarity(length_sec_1, length_sec_2) ==
    LET d == Abs(length_sec_1 - length_sec_2)
        max_dist == 5
    IN IF d > max_dist THEN 0 ELSE 1000 - (d * 1000) \div max_dist

weights == [name |-> 50, album |-> 20, artists |-> 30, length |-> 20]

\* the features both tracks supply (matcher.py:90-104); a name is an object
\* and always true, a list counts when it is not empty, a length when it is
\* neither None nor 0
feature_scores(track1, track2) ==
    [name |-> aliased_string_similarity(track1.name, track2.name)]
    @@ (IF track1.artists # <<>> /\ track2.artists # <<>>
        THEN [artists |-> artists_similarity(track1.artists, track2.artists)]
        ELSE <<>>)
    @@ (IF track1.albums # <<>> /\ track2.albums # <<>>
        THEN [album |-> album_similarity(track1.albums, track2.albums)]
        ELSE <<>>)
    @@ (IF track1.length \notin {None, 0} /\ track2.length \notin {None, 0}
        THEN [length |-> length_similarity(track1.length, track2.length)]
        ELSE <<>>)

RECURSIVE SumOver(_, _)
SumOver(f, S) ==
    IF S = {} THEN 0
    ELSE LET x == CHOOSE x \in S : TRUE IN f[x] + SumOver(f, S \ {x})

\* weighted_sum and total_weight (matcher.py:110-113), the sum in thousandths
weighted(scores) ==
    [num |-> SumOver([f \in DOMAIN scores |-> scores[f] * weights[f]], DOMAIN scores),
     den |-> SumOver([f \in DOMAIN scores |-> weights[f]], DOMAIN scores)]

\* similarity without its check of the uris (matcher.py:56-57)
similarity_of_features(track1, track2) ==
    IF DOMAIN feature_scores(track1, track2) = {}
    THEN [num |-> 0, den |-> 1]
    ELSE weighted(feature_scores(track1, track2))

\* DefaultMatcherStrategy.similarity as the pair num, den: the weighted sum
\* of the scores (thousandths) and the sum of the weights used; the value
\* is num / (1000 * den)
similarity(track1, track2) ==
    IF \E uri1 \in Range(track1.uris) : uri1 \in Range(track2.uris)
    THEN [num |-> 1000, den |-> 1]
    ELSE IF DOMAIN feature_scores(track1, track2) = {}
         THEN [num |-> 0, den |-> 1]
         ELSE weighted(feature_scores(track1, track2))

\* similarity >= p / 10
AtLeast(sim, p) == sim.num >= 100 * p * sim.den

\* MatcherStrategy.are_same with the default threshold 0.7
are_same(track1, track2) == AtLeast(similarity(track1, track2), 7)

-----------------------------------------------------------------------------
(* src/unitunes/pull_playlist.py *)

\* the service type of a service name of the index: the services of the model
\* are named after their type
type_of(service_name) == service_name

\* isinstance(service, PlaylistPullable): the service has pull_tracks
\* (spotify.py, ytm.py); MusicBrainz has not
PlaylistPullable(service_name) == service_name \in {"spotify", "ytm"}

\* isinstance(service, Checkable): the service has is_uri_alive (ytm.py:219)
Checkable(service_name) == service_name = "ytm"

\* isinstance(service, Searchable): search_query and query_generator
Searchable(service_name) == service_name \in {"spotify", "ytm", "mb"}

\* YTM.is_uri_alive (ytm.py:219-221)
is_uri_alive(uri) == uri \in alive

\* get_missing_uris.tracks_to_uris
RECURSIVE tracks_to_uris(_)
tracks_to_uris(tracks) ==
    IF tracks = <<>> THEN <<>>
    ELSE Head(tracks).uris \o tracks_to_uris(Tail(tracks))

get_missing_uris(service, current, new) ==
    LET uris_on_service ==
            SelectSeq(tracks_to_uris(current), LAMBDA uri : uri.service = service)
        remote_uris == tracks_to_uris(new)
    IN SelectSeq(uris_on_service, LAMBDA uri : uri \notin Range(remote_uris))

get_invalid_uris(service_name, uris) ==
    SelectSeq(uris, LAMBDA uri : Checkable(service_name) /\ ~is_uri_alive(uri))

\* the loop over the matches of merge_new_tracks: every match merges track,
\* and Track.merge may change track as well
RECURSIVE merge_into_matches(_, _, _)
merge_into_matches(tracks, matches, track) ==
    IF matches = <<>> THEN tracks
    ELSE LET r == Track_merge(tracks[Head(matches)], track)
         IN merge_into_matches([tracks EXCEPT ![Head(matches)] = r.self],
                               Tail(matches), r.other)

\* matches = [t for t in tracks if matcher.are_same(t, track)], as indices
same_tracks(tracks, track) ==
    SelectSeq([i \in DOMAIN tracks |-> i], LAMBDA i : are_same(tracks[i], track))

\* the body of the loop of merge_new_tracks with tracks.insert(0, track)
merge_new_track_in_front(tracks, track, matches) ==
    IF matches # <<>>
    THEN merge_into_matches(tracks, matches, track)
    ELSE <<track>> \o tracks

\* the body of the loop of merge_new_tracks
merge_new_track(tracks, track, matches) ==
    IF matches # <<>>
    THEN merge_into_matches(tracks, matches, track)
    ELSE Append(tracks, track)

RECURSIVE merge_new_tracks(_, _)
merge_new_tracks(tracks, new_tracks) ==
    IF new_tracks = <<>> THEN tracks
    ELSE merge_new_tracks(
            merge_new_track(tracks, Head(new_tracks),
                            same_tracks(tracks, Head(new_tracks))),
            Tail(new_tracks))

\* t.uris.remove(uri); t.bad_uris.append(uri)
quarantine(t, uri) ==
    [t EXCEPT !.uris = Remove(@, uri), !.bad_uris = Append(@, uri)]

RECURSIVE remove_tracks(_, _)
remove_tracks(current_tracks, missing) ==
    IF missing = <<>> THEN current_tracks
    ELSE remove_tracks(
            [i \in DOMAIN current_tracks |->
                IF Head(missing) \in Range(current_tracks[i].uris)
                THEN quarantine(current_tracks[i], Head(missing))
                ELSE current_tracks[i]],
            Tail(missing))

\* fix_track_uri that appends new_uri and keeps the URIs the track has
update_uri_appending(track, matches) ==
    IF matches = <<>> THEN track
    ELSE IF matches[1].uris[1] \notin Range(track.uris)
         THEN [track EXCEPT !.uris = Append(@, matches[1].uris[1])]
         ELSE track

\* fix_track_uri after matches is computed
update_uri(track, matches) ==
    IF matches = <<>> THEN track
    ELSE LET new_uri == matches[1].uris[1]
         IN IF new_uri \notin Range(track.uris)
            THEN [track EXCEPT !.uris =
                     Append(SelectSeq(@, LAMBDA u : u.service # new_uri.service),
                            new_uri)]
            ELSE track

\* add_changed_uris.fix_track_uri
fix_track_uri(track, remote_tracks) ==
    update_uri(track, SelectSeq(remote_tracks, LAMBDA t : are_same(t, track)))

add_changed_uris(current_tracks, remote_tracks) ==
    [i \in DOMAIN current_tracks |-> fix_track_uri(current_tracks[i], remote_tracks)]

\* the inner loop of remove_uris for one track
RECURSIVE remove_uris_of(_, _)
remove_uris_of(track, uris) ==
    IF uris = <<>> THEN track
    ELSE remove_uris_of(IF Head(uris) \in Range(track.uris)
                        THEN quarantine(track, Head(uris)) ELSE track,
                        Tail(uris))

\* remove_uris that removes the URIs without recording them as bad
remove_uris_forgetting(current_tracks, uris) ==
    [i \in DOMAIN current_tracks |->
        [current_tracks[i] EXCEPT !.uris =
            SelectSeq(@, LAMBDA u : u \notin Range(uris))]]

\* remove_uris
remove_uris(current_tracks, uris) ==
    [i \in DOMAIN current_tracks |-> remove_uris_of(current_tracks[i], uris)]

tracks_match_and_on_service(service, t1, t2) ==
    /\ are_same(t1, t2)
    /\ is_on_service(t1, service)
    /\ is_on_service(t2, service)

\* tracks_to_add without the test for a match in current
tracks_to_add_unmatched(service, current, new) ==
    SelectSeq(new, LAMBDA track : is_on_service(track, service))

tracks_to_add(service, current, new) ==
    LET new_on_service == SelectSeq(new, LAMBDA track : is_on_service(track, service))
    IN SelectSeq(new_on_service, LAMBDA track :
          ~\E i \in DOMAIN current :
               tracks_match_and_on_service(service, track, current[i]))

tracks_to_remove(service, current, new) ==
    LET current_on_service ==
            SelectSeq(current, LAMBDA track : is_on_service(track, service))
    IN SelectSeq(current_on_service, LAMBDA track :
          ~\E i \in DOMAIN new :
               tracks_match_and_on_service(service, new[i], track))

-----------------------------------------------------------------------------
(* src/unitunes/searcher.py *)

\* the accumulation of one round: new matches not yet in matches are appended
RECURSIVE add_matches(_, _)
add_matches(matches, new_matches) ==
    IF new_matches = <<>> THEN matches
    ELSE add_matches(IF Head(new_matches) \notin Range(matches)
                     THEN Append(matches, Head(new_matches)) ELSE matches,
                     Tail(new_matches))

stop_threshold == 8

\* the loop over the queries: results[k] is what search_query returns for the
\* k-th query of query_generator(track)
RECURSIVE search_rounds(_, _, _)
search_rounds(matches, results, track) ==
    IF results = <<>> THEN matches
    ELSE LET new_matches == Head(results)
             now == add_matches(matches, new_matches)
         IN IF \E m \in Range(new_matches) :
                   AtLeast(similarity(track, m), stop_threshold)
            THEN now
            ELSE search_rounds(now, Tail(results), track)

\* the loop over the queries without its break
RECURSIVE issued_queries_all(_, _, _)
issued_queries_all(k, results, track) ==
    IF results = <<>> THEN <<>>
    ELSE <<k>> \o issued_queries_all(k + 1, Tail(results), track)

\* the calls of service.search_query in the loop over the queries
\* (searcher.py:27-36): the positions in query_generator(track) of the
\* queries issued, in the order of the calls; k is the position of the
\* first query still to come
RECURSIVE issued_queries(_, _, _)
issued_queries(k, results, track) ==
    IF results = <<>> THEN <<>>
    ELSE IF \E m \in Range(Head(results)) :
               AtLeast(similarity(track, m), stop_threshold)
         THEN <<k>>
         ELSE <<k>> \o issued_queries(k + 1, Tail(results), track)

\* sim1 > sim2
Greater(sim1, sim2) == sim1.num * sim2.den > sim2.num * sim1.den

\* the matches of a sorted list that come before h when h is put in front of
\* them and sorted in: those more similar to track than h
before_match(rest, h, track) ==
    SelectSeq(rest, LAMBDA m : Greater(similarity(track, m), similarity(track, h)))

\* rest is sorted, best first, so before is its beginning
insert_match(rest, h, before) ==
    before \o <<h>> \o SubSeq(rest, Len(before) + 1, Len(rest))

\* matches left in the order of the queries
RECURSIVE sort_matches_unsorted(_, _)
sort_matches_unsorted(matches, track) == matches

\* list.sort(key=similarity to track, reverse=True): stable, best first
RECURSIVE sort_matches(_, _)
sort_matches(matches, track) ==
    IF matches = <<>> THEN <<>>
    ELSE insert_match(sort_matches(Tail(matches), track), Head(matches),
                      before_match(sort_matches(Tail(matches), track),
                                   Head(matches), track))

\* DefaultSearcherStrategy.search
search(results, track, limit) ==
    LET matches == sort_matches(search_rounds(<<>>, results, track), track)
    IN SubSeq(matches, 1, IF Len(matches) < limit THEN Len(matches) ELSE limit)

-----------------------------------------------------------------------------
(* src/unitunes/main.py and src/unitunes/playlist.py *)

\* get_predicted_tracks: searcher.search(target_service, track), limit 3
get_predicted_tracks(results, track) == search(results, track, 3)

\* the end of get_prediction_track (main.py:359-365): the best match in a
\* list, the empty list for None
best_match(track, matches, threshold) ==
    IF Len(matches) = 0 THEN <<>>
    ELSE IF AtLeast(similarity(track, matches[1]), threshold)
         THEN <<matches[1]>> ELSE <<>>

\* the matches carrying no URI of track.bad_uris (main.py:358)
not_bad(track, matches) ==
    SelectSeq(matches, LAMBDA m :
       ~\E uri \in Range(m.uris) : uri \in Range(track.bad_uris))

\* get_prediction_track without its bad_uris filter
get_prediction_track_unfiltered(results, track, threshold) ==
    best_match(track, get_predicted_tracks(results, track), threshold)

\* get_prediction_track
get_prediction_track(results, track, threshold) ==
    best_match(track, not_bad(track, get_predicted_tracks(results, track)), threshold)

\* Playlist: uris is the dict service name -> list of playlist URIs in its
\* insertion order, tracks the list of Track objects (indices of heap)
Playlist(uris, tracks) == [uris |-> uris, tracks |-> tracks]

\* playlist.uris[service_name]
uris_of(pl, service_name) ==
    LET e == SelectSeq(pl.uris, LAMBDA x : x.service = service_name)
    IN IF e = <<>> THEN <<>> ELSE e[1].uris

\* the (service name, playlist URI) pairs the loops of pull_playlist visit
RECURSIVE links_of(_)
links_of(uris) ==
    IF uris = <<>> THEN <<>>
    ELSE [k \in DOMAIN Head(uris).uris |->
             [service |-> Head(uris).service, uri |-> Head(uris).uris[k]]]
         \o links_of(Tail(uris))

\* the values of the Track objects of a list of indices
deref(ids) == [i \in DOMAIN ids |-> heap[ids[i]]]

\* the (track index, URI) pairs of the URIs that add_changed_uris took from
\* the tracks
repaired_uris(tracks, fixed) ==
    {x \in (DOMAIN fixed) \X Range(tracks_to_uris(tracks)) :
        /\ x[2] \in Range(tracks[x[1]].uris)
        /\ x[2] \notin Range(fixed[x[1]].uris)}

\* the body of the loops of pull_playlist after add_changed_uris
\* (main.py:219-230); fixed is playlist.tracks after it
link_pulled(st, service_name, remote_tracks, fixed) ==
    LET new_missing == get_missing_uris(type_of(service_name), fixed, remote_tracks)
        invalid_uris == st.invalid_uris \o get_invalid_uris(service_name, new_missing)
    IN [tracks |-> fixed,
        new_tracks |-> st.new_tracks
            \o tracks_to_add(type_of(service_name), st.tracks, remote_tracks),
        missing_uris |-> st.missing_uris
            \o SelectSeq(new_missing, LAMBDA uri : uri \notin Range(invalid_uris)),
        invalid_uris |-> invalid_uris,
        repaired |-> st.repaired \cup repaired_uris(st.tracks, fixed)]

\* the body of the loops of pull_playlist (main.py:203-230) for one link; st
\* holds playlist.tracks and the three lists
pull_link(st, service_name, remote_tracks) ==
    link_pulled(st, service_name, remote_tracks,
                add_changed_uris(st.tracks, remote_tracks))

\* the loops of pull_playlist over the links still to visit
RECURSIVE pull_links(_, _)
pull_links(st, links) ==
    IF links = <<>> THEN st
    ELSE pull_links(pull_link(st, Head(links).service, remote[Head(links).uri]),
                    Tail(links))

\* the end of pull_playlist (main.py:236-242)
finish_pull(st) ==
    [st EXCEPT !.tracks =
        remove_tracks(merge_new_tracks(remove_uris(st.tracks, st.invalid_uris),
                                       st.new_tracks),
                      st.missing_uris)]

\* PlaylistManager.pull_playlist on the values of playlist.tracks: the lists
\* it computes and the tracks after it
pull(pl) ==
    finish_pull(
       pull_links([tracks |-> deref(pl.tracks), new_tracks |-> <<>>,
                   missing_uris |-> <<>>, invalid_uris |-> <<>>, repaired |-> {}],
                  links_of(SelectSeq(pl.uris, LAMBDA x : PlaylistPullable(x.service)))))

\* the objects after an operation on a playlist: the old objects of the
\* playlist take their new values and the appended tracks are new objects
store(ids, tracks) ==
    [i \in 1..(Len(heap) + Len(tracks) - Len(ids)) |->
        IF \E k \in DOMAIN ids : ids[k] = i
        THEN tracks[CHOOSE k \in DOMAIN ids : ids[k] = i]
        ELSE IF i <= Len(heap) THEN heap[i]
             ELSE tracks[Len(ids) + i - Len(heap)]]

stored_ids(ids, tracks) ==
    ids \o [k \in 1..(Len(tracks) - Len(ids)) |-> Len(heap) + k]

BadUrisBounded(tracks) ==
    \A i \in DOMAIN tracks : Len(tracks[i].bad_uris) <= MaxBadUris

\* the calls of progress_callback of one pull, push or search, as pairs
\* (progress, size): one before the loop and one at the end of each round
\* (main.py:196-197 and 233-234, 258-259 and 284-285, 323-324 and 335-336)
progress_calls(size) == [k \in 1..(size + 1) |-> <<k - 1, size>>]

\* pullable_services (main.py:190-194)
pullable_services(pl) == SelectSeq(pl.uris, LAMBDA x : PlaylistPullable(x.service))

\* searchable_services (main.py:299-303)
searchable_services(pl) == SelectSeq(pl.uris, LAMBDA x : Searchable(x.service))

\* the playlist after pull_playlist has computed r
pulled(playlist_id, r) ==
    /\ BadUrisBounded(r.tracks)
    /\ heap' = store(playlists[playlist_id].tracks, r.tracks)
    /\ playlists' = [playlists EXCEPT ![playlist_id].tracks =
                        stored_ids(playlists[playlist_id].tracks, r.tracks)]
    /\ last' = [op |-> "pull", playlist |-> playlist_id,
                new_tracks |-> r.new_tracks,
                missing_uris |-> r.missing_uris,
                invalid_uris |-> r.invalid_uris,
                repaired |-> r.repaired,
                progress |->
                   progress_calls(Len(pullable_services(playlists[playlist_id])))]

\* the playlist after an adapter call of the k-th of n links has raised in
\* the loops of pull_playlist (main.py:205, 209): st holds playlist.tracks as
\* add_changed_uris left them for the links before, the lists of the call
\* are lost and main.py:236-242 is not reached
pull_raised(playlist_id, k, n, st) ==
    /\ heap' = store(playlists[playlist_id].tracks, st.tracks)
    /\ last' = [op |-> "pull_raised", playlist |-> playlist_id,
                links |-> n, raised |-> k, fetched |-> 1..(k - 1)]

\* PlaylistManager.pull_playlist when service.pull_metadata or
\* service.pull_tracks raises for the k-th link: nothing catches it
pull_playlist_raising(playlist_id, k) ==
    /\ playlist_id \in DOMAIN playlists
    /\ k \in DOMAIN links_of(pullable_services(playlists[playlist_id]))
    /\ pull_raised(playlist_id, k,
          Len(links_of(pullable_services(playlists[playlist_id]))),
          pull_links([tracks |-> deref(playlists[playlist_id].tracks),
                      new_tracks |-> <<>>, missing_uris |-> <<>>,
                      invalid_uris |-> <<>>, repaired |-> {}],
                     SubSeq(links_of(pullable_services(playlists[playlist_id])),
                            1, k - 1)))
    /\ UNCHANGED <<playlists, remote, alive>>
    /\ UNCHANGED <<engineVars, mergeVars, callVars, serviceVars>>

\* PlaylistManager.pull_playlist
pull_playlist(playlist_id) ==
    /\ playlist_id \in DOMAIN playlists
    /\ pulled(playlist_id, pull(playlists[playlist_id]))
    /\ UNCHANGED <<remote, alive>>
    /\ UNCHANGED <<engineVars, mergeVars, callVars, serviceVars>>

\* the loop of search_playlist over tracks_to_search (main.py:326-332);
\* answers[service_name] is what the service's queries return in this call.
\* predicted collects what get_prediction_track returned, rejected the
\* candidates of get_predicted_tracks that carry a URI of track.bad_uris
search_track(st, i, predicted, offered) ==
    [tracks |-> IF predicted # <<>>
                THEN [st.tracks EXCEPT ![i] = Track_merge(@, predicted[1]).self]
                ELSE st.tracks,
     predicted |-> st.predicted \cup {<<i, m>> : m \in Range(predicted)},
     rejected |-> st.rejected \cup
         {<<i, m>> : m \in {x \in Range(offered) :
             \E uri \in Range(x.uris) : uri \in Range(st.tracks[i].bad_uris)}}]

RECURSIVE search_tracks(_, _, _)
search_tracks(st, tracks_to_search, answers) ==
    IF tracks_to_search = <<>> THEN st
    ELSE search_tracks(
            search_track(st, Head(tracks_to_search)[2],
               get_prediction_track(answers[Head(tracks_to_search)[1]],
                                    st.tracks[Head(tracks_to_search)[2]], 7),
               get_predicted_tracks(answers[Head(tracks_to_search)[1]],
                                    st.tracks[Head(tracks_to_search)[2]])),
            Tail(tracks_to_search), answers)

\* tracks_to_search (main.py:305-317)
RECURSIVE pairs_to_search(_, _)
pairs_to_search(services, tracks) ==
    IF services = <<>> THEN <<>>
    ELSE LET service_name == Head(services).service
         IN [k \in DOMAIN SelectSeq([i \in DOMAIN tracks |-> i], LAMBDA i :
                       find_uri(tracks[i], type_of(service_name)) = <<>>) |->
                <<service_name,
                  SelectSeq([i \in DOMAIN tracks |-> i], LAMBDA i :
                       find_uri(tracks[i], type_of(service_name)) = <<>>)[k]>>]
            \o pairs_to_search(Tail(services), tracks)

\* the playlist after the loop of search_playlist
searched(playlist_name, st) ==
    /\ heap' = store(playlists[playlist_name].tracks, st.tracks)
    /\ last' = [op |-> "search", playlist |-> playlist_name,
                predicted |-> st.predicted,
                rejected |-> st.rejected,
                progress |->
                   progress_calls(Len(pairs_to_search(
                      searchable_services(playlists[playlist_name]),
                      deref(playlists[playlist_name].tracks))))]

\* PlaylistManager.search_playlist
search_playlist(playlist_name, answers) ==
    /\ playlist_name \in DOMAIN playlists
    /\ searched(playlist_name,
          search_tracks(
             [tracks |-> deref(playlists[playlist_name].tracks),
              predicted |-> {}, rejected |-> {}],
             pairs_to_search(
                SelectSeq(playlists[playlist_name].uris,
                          LAMBDA x : Searchable(x.service)),
                deref(playlists[playlist_name].tracks)),
             answers))
    /\ UNCHANGED <<playlists, remote, alive>>
    /\ UNCHANGED <<engineVars, mergeVars, callVars, serviceVars>>

\* Playlist.merge_playlist.merge_uris for one service of the other playlist
RECURSIVE add_uris(_, _)
add_uris(uris, more) ==
    IF more = <<>> THEN uris
    ELSE add_uris(IF Head(more) \notin Range(uris)
                  THEN Append(uris, Head(more)) ELSE uris, Tail(more))

\* Playlist.merge_playlist.merge_uris
RECURSIVE merge_playlist_uris(_, _)
merge_playlist_uris(uris, other_uris) ==
    IF other_uris = <<>> THEN uris
    ELSE LET e == Head(other_uris)
             with == IF \E k \in DOMAIN uris : uris[k].service = e.service
                     THEN uris
                     ELSE Append(uris, [service |-> e.service, uris |-> <<>>])
         IN merge_playlist_uris(
               [k \in DOMAIN with |->
                   IF with[k].service = e.service
                   THEN [with[k] EXCEPT !.uris = add_uris(@, e.uris)]
                   ELSE with[k]],
               Tail(other_uris))

\* Playlist.merge_track after the first same track is looked for: matches
\* holds the same tracks of self.tracks
merge_track_into(st, id, matches) ==
    IF matches = <<>>
    THEN [st EXCEPT !.tracks = Append(@, id)]
    ELSE IF Head(matches) = id
         THEN [st EXCEPT !.heap[id] = Track_self_merge(@)]
         ELSE [st EXCEPT
                 !.heap[Head(matches)] = Track_merge(@, st.heap[id]).self,
                 !.heap[id] = Track_merge(st.heap[Head(matches)], @).other]

\* Playlist.merge_track on the objects: st.tracks is self.tracks and id the
\* Track object merged; the first same track merges it, and with no same
\* track the object itself is appended
merge_track(st, id) ==
    merge_track_into(st, id,
       SelectSeq(st.tracks, LAMBDA t : are_same(st.heap[t], st.heap[id])))

RECURSIVE merge_tracks(_, _)
merge_tracks(st, ids) ==
    IF ids = <<>> THEN st
    ELSE merge_tracks(merge_track(st, Head(ids)), Tail(ids))

\* the playlists after the loop of merge_playlist
merged(source_playlist_name, target_playlist_name, st) ==
    /\ heap' = st.heap
    /\ playlists' = [playlists EXCEPT ![target_playlist_name] =
          Playlist(merge_playlist_uris(@.uris, playlists[source_playlist_name].uris),
                   st.tracks)]
    /\ last' = [op |-> "merge", playlist |-> target_playlist_name,
                source |-> source_playlist_name]

\* Playlist.merge_playlist, as the merge command calls it (cli.py:549-571)
merge_playlist(source_playlist_name, target_playlist_name) ==
    /\ source_playlist_name \in DOMAIN playlists
    /\ target_playlist_name \in DOMAIN playlists
    /\ source_playlist_name # target_playlist_name
    /\ merged(source_playlist_name, target_playlist_name,
              merge_tracks([heap |-> heap,
                            tracks |-> playlists[target_playlist_name].tracks],
                           playlists[source_playlist_name].tracks))
    /\ UNCHANGED <<remote, alive>>
    /\ UNCHANGED <<engineVars, mergeVars, callVars, serviceVars>>

\* PlaylistManager.add_playlist
add_playlist(playlist_id) ==
    /\ playlist_id \notin DOMAIN playlists
    /\ playlists' = playlists @@ (playlist_id :> Playlist(<<>>, <<>>))
    /\ last' = [op |-> "add_playlist", playlist |-> playlist_id]
    /\ UNCHANGED <<heap, remote, alive>>
    /\ UNCHANGED <<engineVars, mergeVars, callVars, serviceVars>>

-----------------------------------------------------------------------------
(* SpecMerge: self.merge(other) on bounded pairs of tracks *)

\* the playlists are not part of this specification
IdleRecon ==
    /\ heap = <<>>
    /\ playlists = <<>>
    /\ remote = <<>>
    /\ alive = {}
    /\ last = [op |-> "off"]

\* the job engine is not part of this specification
IdleEngine ==
    /\ jobs = <<>>
    /\ queue = <<>>
    /\ workers = <<>>
    /\ gui = [pc |-> "off", job |-> -1]
    /\ started = <<>>
    /\ asserted = FALSE

\* as in src/tests/test_track.py
Strings == {"John", "Jon", "Al"}

Lengths == {None, 200, 203}

URIs == {TrackURI("spotify", "123456"), TrackURI("spotify", "1234567"),
         TrackURI("ytm", "1234567")}

AliasedStrings ==
    {AliasedString(v, al) : v \in Strings, al \in SeqsUpTo(Strings, MaxAliases)}

UriLists == SeqsUpTo(URIs, MaxUris)

IdleMerge ==
    /\ self = None
    /\ other = None
    /\ self0 = None
    /\ other0 = None
    /\ called = FALSE

\* no function is under test in this specification
IdleCall ==
    /\ input = None
    /\ output = None

\* the function under test is not called yet
NotCalled == [done |-> FALSE]

\* the index is not part of this specification
IdleServices ==
    /\ index = {}
    /\ configs = {}

\* the inputs: the uris and lengths vary, or the artists, or the albums
MergeInputs ==
    {<<Track(AliasedString("test", <<>>), <<>>, <<>>, l1, u1),
       Track(AliasedString("test1", <<>>), <<>>, <<>>, l2, u2)>> :
        l1 \in Lengths, l2 \in Lengths, u1 \in UriLists, u2 \in UriLists}
    \cup
    {<<Track(AliasedString("test", <<>>), <<>>, ar[1], None, <<>>),
       Track(AliasedString("test1", <<>>), <<>>, ar[2], None, <<>>)>> :
        ar \in SeqsUpTo(AliasedStrings, MaxArtists)
               \X SeqsUpTo(AliasedStrings, MaxArtists)}
    \cup
    {<<Track(AliasedString("test", <<>>), al[1], <<>>, None, <<>>),
       Track(AliasedString("test1", <<>>), al[2], <<>>, None, <<>>)>> :
        al \in SeqsUpTo(AliasedStrings, MaxAlbums)
               \X SeqsUpTo(AliasedStrings, MaxAlbums)}

InitMerge ==
    /\ \E in \in MergeInputs :
         /\ self = in[1]
         /\ other = in[2]
         /\ self0 = in[1]
         /\ other0 = in[2]
    /\ called = FALSE
    /\ IdleEngine
    /\ IdleRecon
    /\ IdleCall
    /\ IdleServices

\* self.merge(other)
merge ==
    /\ ~called
    /\ LET r == Track_merge(self, other)
       IN /\ self' = r.self
          /\ other' = r.other
    /\ called' = TRUE
    /\ UNCHANGED <<self0, other0>>
    /\ UNCHANGED <<engineVars, reconVars, callVars, serviceVars>>

NextMerge == merge

SpecMerge == InitMerge /\ [][NextMerge]_vars

-----------------------------------------------------------------------------
(* src/gui/engine.py *)

JobStatus == {"PENDING", "RUNNING", "SUCCESS", "FAILED", "CANCELLED"}

JobType == {"PULL", "PUSH", "SEARCH"}

\* Job.__init__: the class attributes give status PENDING, size 0, progress 0.
\* bound and row are the GUI's part of the job: whether the closure variable
\* job_id of GUI.add_job is assigned yet, and the state of the job's row.
Job(type) ==
    [type |-> type, status |-> "PENDING", size |-> 0, progress |-> 0,
     bound |-> FALSE, row |-> "none"]

\* Engine._generate_id
generate_id == Len(jobs)

\* Engine.get_job
get_job(job_id) == jobs[job_id + 1]

SetJob(job_id, field, value) ==
    [jobs EXCEPT ![job_id + 1] = [@ EXCEPT ![field] = value]]

\* Job.gui_callback as GUI.add_job builds it: lambda: self.sync_job_row(job_id).
\* It raises NameError while job_id is unassigned, and the dearpygui calls of
\* sync_job_row raise while the job's row does not exist.
gui_callback_raises(job_id) ==
    \/ ~get_job(job_id).bound
    \/ get_job(job_id).row # "present"

Worker(pc, job) == [pc |-> pc, job |-> job]

NoJob == -1

\* Engine.__init__: a new daemon thread at the top of _process_queue.
Engine == Worker("get", NoJob)

SetWorker(w, pc, job) == [workers EXCEPT ![w] = Worker(pc, job)]

-----------------------------------------------------------------------------
(* Engine._process_queue, one action per statement that touches shared state *)

\* job_id = self._queue.get(); job = self._jobs[job_id]
W_get(w) ==
    /\ workers[w].pc = "get"
    /\ queue # <<>>
    /\ queue' = Tail(queue)
    /\ workers' = SetWorker(w, "set_running", Head(queue))
    /\ UNCHANGED <<jobs, gui, started, asserted>>
    /\ UNCHANGED <<mergeVars, reconVars, callVars, serviceVars>>

\* job.status = JobStatus.RUNNING     (engine.py:100)
W_set_running(w) ==
    /\ workers[w].pc = "set_running"
    /\ jobs' = SetJob(workers[w].job, "status", "RUNNING")
    /\ started' = Append(started, workers[w].job)
    /\ workers' = SetWorker(w, "execute", workers[w].job)
    /\ UNCHANGED <<queue, gui, asserted>>
    /\ UNCHANGED <<mergeVars, reconVars, callVars, serviceVars>>

\* Job.execute: self.status = RUNNING; self.gui_callback()   (engine.py:61-62)
W_execute(w) ==
    /\ workers[w].pc = "execute"
    /\ jobs' = SetJob(workers[w].job, "status", "RUNNING")
    /\ workers' = SetWorker(w,
                     IF gui_callback_raises(workers[w].job)
                     THEN "except" ELSE "progress", workers[w].job)
    /\ UNCHANGED <<queue, gui, started, asserted>>
    /\ UNCHANGED <<mergeVars, reconVars, callVars, serviceVars>>

\* The pull/push/search call begins with progress_callback(0, size)
\* (main.py:197, 259, 324), which stores progress and size, asserts
\* progress <= size and calls gui_callback (engine.py:55-59).
W_progress(w) ==
    /\ workers[w].pc = "progress"
    /\ \E size \in 0..1 :
         /\ jobs' = [jobs EXCEPT ![workers[w].job + 1] =
                        [@ EXCEPT !.progress = 0, !.size = size]]
         /\ asserted' = (asserted \/ ~(0 <= size))
    /\ workers' = SetWorker(w,
                     IF gui_callback_raises(workers[w].job)
                     THEN "except" ELSE "call", workers[w].job)
    /\ UNCHANGED <<queue, gui, started>>
    /\ UNCHANGED <<mergeVars, reconVars, callVars, serviceVars>>

\* The rest of the pull/push/search call: an adapter call may raise.
W_call(w) ==
    /\ workers[w].pc = "call"
    /\ \E raises \in BOOLEAN :
         workers' = SetWorker(w, IF raises THEN "except" ELSE "success",
                              workers[w].job)
    /\ UNCHANGED <<jobs, queue, gui, started, asserted>>
    /\ UNCHANGED <<mergeVars, reconVars, callVars, serviceVars>>

\* self.status = JobStatus.SUCCESS     (engine.py:80)
W_success(w) ==
    /\ workers[w].pc = "success"
    /\ jobs' = SetJob(workers[w].job, "status", "SUCCESS")
    /\ workers' = SetWorker(w, "success_cb", workers[w].job)
    /\ UNCHANGED <<queue, gui, started, asserted>>
    /\ UNCHANGED <<mergeVars, reconVars, callVars, serviceVars>>

\* self.gui_callback()                 (engine.py:81)
W_success_cb(w) ==
    /\ workers[w].pc = "success_cb"
    /\ workers' = SetWorker(w,
                     IF gui_callback_raises(workers[w].job)
                     THEN "except" ELSE "assert", workers[w].job)
    /\ UNCHANGED <<jobs, queue, gui, started, asserted>>
    /\ UNCHANGED <<mergeVars, reconVars, callVars, serviceVars>>

\* except Exception: job.status = JobStatus.FAILED    (engine.py:104-107)
W_except(w) ==
    /\ workers[w].pc = "except"
    /\ jobs' = SetJob(workers[w].job, "status", "FAILED")
    /\ workers' = SetWorker(w, "assert", workers[w].job)
    /\ UNCHANGED <<queue, gui, started, asserted>>
    /\ UNCHANGED <<mergeVars, reconVars, callVars, serviceVars>>

\* assert job.status != JobStatus.RUNNING             (engine.py:109)
W_assert(w) ==
    /\ workers[w].pc = "assert"
    /\ asserted' = (asserted \/ get_job(workers[w].job).status = "RUNNING")
    /\ workers' = SetWorker(w, "final_cb", workers[w].job)
    /\ UNCHANGED <<jobs, queue, gui, started>>
    /\ UNCHANGED <<mergeVars, reconVars, callVars, serviceVars>>

\* job.gui_callback()  (engine.py:112), outside the try: an exception here
\* ends the thread.
W_final_cb(w) ==
    /\ workers[w].pc = "final_cb"
    /\ workers' = IF gui_callback_raises(workers[w].job)
                  THEN SetWorker(w, "dead", workers[w].job)
                  ELSE SetWorker(w, "get", NoJob)
    /\ UNCHANGED <<jobs, queue, gui, started, asserted>>
    /\ UNCHANGED <<mergeVars, reconVars, callVars, serviceVars>>

-----------------------------------------------------------------------------
(* src/gui/main.py: the GUI thread *)

\* Engine.push_job, called from GUI.add_job (main.py:172): the id is
\* generated, the job stored and the id queued; job_id is not assigned yet.
push_job_upto(type, bound) ==
    /\ gui.pc = "idle"
    /\ Len(jobs) < bound
    /\ jobs' = Append(jobs, Job(type))
    /\ queue' = Append(queue, generate_id)
    /\ gui' = [pc |-> "bind", job |-> generate_id]
    /\ UNCHANGED <<workers, started, asserted>>
    /\ UNCHANGED <<mergeVars, reconVars, callVars, serviceVars>>

\* push_job while fewer than MaxJobs jobs were pushed
push_job(type) == push_job_upto(type, MaxJobs)

\* push_job returns: job_id = ... of GUI.add_job is assigned (main.py:172)
G_bind ==
    /\ gui.pc = "bind"
    /\ jobs' = SetJob(gui.job, "bound", TRUE)
    /\ gui' = [gui EXCEPT !.pc = "placeholder"]
    /\ UNCHANGED <<queue, workers, started, asserted>>
    /\ UNCHANGED <<mergeVars, reconVars, callVars, serviceVars>>

\* GUI.add_job_row_placeholder (main.py:123-131, called at main.py:180)
add_job_row_placeholder ==
    /\ gui.pc = "placeholder"
    /\ jobs' = SetJob(gui.job, "row", "present")
    /\ gui' = [gui EXCEPT !.pc = "sync"]
    /\ UNCHANGED <<queue, workers, started, asserted>>
    /\ UNCHANGED <<mergeVars, reconVars, callVars, serviceVars>>

\* GUI.sync_job_row (main.py:137-169, called at main.py:181)
sync_job_row ==
    /\ gui.pc = "sync"
    /\ gui' = [pc |-> "idle", job |-> NoJob]
    /\ UNCHANGED <<jobs, queue, workers, started, asserted>>
    /\ UNCHANGED <<mergeVars, reconVars, callVars, serviceVars>>

\* clear_completed_jobs (main.py:107-115): the rows of SUCCESS jobs go.
clear_completed_jobs ==
    /\ gui.pc = "idle"
    /\ \E i \in DOMAIN jobs : jobs[i].row = "present" /\ jobs[i].status = "SUCCESS"
    /\ jobs' = [i \in DOMAIN jobs |->
                  IF jobs[i].row = "present" /\ jobs[i].status = "SUCCESS"
                  THEN [jobs[i] EXCEPT !.row = "deleted"] ELSE jobs[i]]
    /\ UNCHANGED <<queue, workers, gui, started, asserted>>
    /\ UNCHANGED <<mergeVars, reconVars, callVars, serviceVars>>

\* GUI.init (main.py:42-47), run again by change_unitunes_dir (main.py:194):
\* another Engine and so another worker thread on the class-level _queue.
GUI_init ==
    /\ gui.pc = "idle"
    /\ Len(workers) < MaxEngines
    /\ workers' = Append(workers, Engine)
    /\ UNCHANGED <<jobs, queue, gui, started, asserted>>
    /\ UNCHANGED <<mergeVars, reconVars, callVars, serviceVars>>

-----------------------------------------------------------------------------

\* After GUI.__init__ (main.py:35-40): Engine(self.pm) at line 38 and again
\* in self.init() at line 45; _queue and _jobs are class attributes of Engine
\* (engine.py:86-87), shared by both instances.
InitEngine ==
    /\ jobs = <<>>
    /\ queue = <<>>
    /\ workers = <<Engine, Engine>>
    /\ gui = [pc |-> "idle", job |-> NoJob]
    /\ started = <<>>
    /\ asserted = FALSE
    /\ IdleMerge
    /\ IdleRecon
    /\ IdleCall
    /\ IdleServices

NextEngine ==
    \/ \E w \in DOMAIN workers : W_get(w)
    \/ \E w \in DOMAIN workers : W_set_running(w)
    \/ \E w \in DOMAIN workers : W_execute(w)
    \/ \E w \in DOMAIN workers : W_progress(w)
    \/ \E w \in DOMAIN workers : W_call(w)
    \/ \E w \in DOMAIN workers : W_success(w)
    \/ \E w \in DOMAIN workers : W_success_cb(w)
    \/ \E w \in DOMAIN workers : W_except(w)
    \/ \E w \in DOMAIN workers : W_assert(w)
    \/ \E w \in DOMAIN workers : W_final_cb(w)
    \/ \E type \in JobType : push_job(type)
    \/ G_bind
    \/ add_job_row_placeholder
    \/ sync_job_row
    \/ clear_completed_jobs
    \/ GUI_init

SpecEngine == InitEngine /\ [][NextEngine]_vars

\* one step of the worker thread w in _process_queue
WorkerStep(w) ==
    \/ W_get(w)
    \/ W_set_running(w)
    \/ W_execute(w)
    \/ W_progress(w)
    \/ W_call(w)
    \/ W_success(w)
    \/ W_success_cb(w)
    \/ W_except(w)
    \/ W_assert(w)
    \/ W_final_cb(w)

\* the worker threads of the two Engine instances of GUI.__init__
EngineThreads == DOMAIN <<Engine, Engine>>

\* SpecLive: the GUI adds pull jobs and the worker threads, scheduled
\* fairly, process them; every call and callback returns or raises
NextLive ==
    \/ \E w \in DOMAIN workers : WorkerStep(w)
    \/ push_job_upto("PULL", MaxLiveJobs)
    \/ G_bind
    \/ add_job_row_placeholder
    \/ sync_job_row

SpecLive ==
    /\ InitEngine
    /\ [][NextLive]_vars
    /\ \A w \in EngineThreads : WF_vars(WorkerStep(w))

-----------------------------------------------------------------------------
(* SpecRecon: pull, search and merge on two playlists and three remote ones *)

PlaylistNames == {"headphones", "other"}

PlaylistURIs == {"PL1", "PL2", "SP1"}

OwlCity == AliasedString("Owl City", <<>>)

\* the tracks the adapters build from the remote data: one URI each, on the
\* adapter's own service.  No artist has an alias, so AliasedString.merge
\* never changes a value here and it does not matter which Track objects
\* share an AliasedString object.
Catalog(service) ==
    IF service = "ytm"
    THEN {Track(AliasedString("Fireflies", <<>>), <<>>, <<OwlCity>>, 228,
                <<TrackURI("ytm", "y1")>>),
          Track(AliasedString("Fireflies", <<>>), <<>>, <<OwlCity>>, 228,
                <<TrackURI("ytm", "y2")>>),
          Track(AliasedString("Song", <<>>), <<>>, <<>>, 180,
                <<TrackURI("ytm", "y3")>>)}
    ELSE {Track(AliasedString("Fireflies", <<>>), <<>>, <<OwlCity>>, 228,
                <<TrackURI("spotify", "s1")>>)}

service_of(playlist_uri) == IF playlist_uri = "SP1" THEN "spotify" ELSE "ytm"

\* the lists of distinct tracks of a service, up to n long
TrackLists(service, n) ==
    {l \in SeqsUpTo(Catalog(service), n) : NoDuplicates(l)}

\* the links of the playlist the index holds at start
LinkConfigs ==
    {<<[service |-> "ytm", uris |-> <<"PL1">>]>>,
     <<[service |-> "ytm", uris |-> <<"PL1", "PL2">>]>>,
     <<[service |-> "ytm", uris |-> <<"PL1">>],
       [service |-> "spotify", uris |-> <<"SP1">>]>>}

\* PlaylistManager.__init__ (main.py:73-83): the playlist of the index is
\* loaded; it has no track yet
InitRecon ==
    /\ heap = <<>>
    /\ \E uris \in LinkConfigs :
         playlists = ("headphones" :> Playlist(uris, <<>>))
    /\ remote \in {r \in [PlaylistURIs -> TrackLists("ytm", MaxRemote)
                                           \cup TrackLists("spotify", MaxRemote)] :
                     \A u \in PlaylistURIs :
                        /\ r[u] \in TrackLists(service_of(u), MaxRemote)
                        /\ r[u] # <<>> =>
                              \E l \in Range(links_of(playlists["headphones"].uris)) :
                                 l.uri = u}
    /\ alive = {TrackURI("ytm", "y1"), TrackURI("ytm", "y2"), TrackURI("ytm", "y3")}
    /\ last = [op |-> "init"]
    /\ IdleEngine
    /\ IdleMerge
    /\ IdleCall
    /\ IdleServices

\* a track is removed from a remote playlist
remote_remove(playlist_uri, k) ==
    /\ k \in DOMAIN remote[playlist_uri]
    /\ remote' = [remote EXCEPT ![playlist_uri] =
                     SubSeq(@, 1, k - 1) \o SubSeq(@, k + 1, Len(@))]
    /\ last' = [op |-> "remote"]
    /\ UNCHANGED <<heap, playlists, alive>>
    /\ UNCHANGED <<engineVars, mergeVars, callVars, serviceVars>>

\* the service re-uploads a track: the remote playlist lists the same song
\* under another URI ("YTM URIs are not stable", main.py:216)
remote_reupload(playlist_uri, k) ==
    /\ k \in DOMAIN remote[playlist_uri]
    /\ \E t \in Catalog(service_of(playlist_uri)) :
          /\ t # remote[playlist_uri][k]
          /\ t.name = remote[playlist_uri][k].name
          /\ t \notin Range(remote[playlist_uri])
          /\ remote' = [remote EXCEPT ![playlist_uri][k] = t]
    /\ last' = [op |-> "remote"]
    /\ UNCHANGED <<heap, playlists, alive>>
    /\ UNCHANGED <<engineVars, mergeVars, callVars, serviceVars>>

\* the service stops playing a track of the library: is_uri_alive turns false
uri_dies(uri) ==
    /\ uri \in alive
    /\ \E i \in DOMAIN heap : uri \in Range(heap[i].uris)
    /\ alive' = alive \ {uri}
    /\ last' = [op |-> "remote"]
    /\ UNCHANGED <<heap, playlists, remote>>
    /\ UNCHANGED <<engineVars, mergeVars, callVars, serviceVars>>

\* isinstance(service, Pushable): the service has add_tracks and
\* remove_tracks (spotify.py, ytm.py); MusicBrainz has not
Pushable(service_name) == service_name \in {"spotify", "ytm"}

\* pushable_services (main.py:252-256)
pushable_services(pl) == SelectSeq(pl.uris, LAMBDA x : Pushable(x.service))

\* one call of an adapter method in a push
Call(method, uri, tracks) == [method |-> method, uri |-> uri, tracks |-> tracks]

\* the remote playlist after service.add_tracks: the ids of
\* track.find_uri(self.type) are added at its end (ytm.py:197-206)
remote_added(service, listed, tracks) ==
    listed \o [k \in DOMAIN tracks |->
                  CHOOSE t \in Catalog(service) :
                     t.uris = find_uri(tracks[k], type_of(service))]

\* the remote playlist after service.remove_tracks: the entries with the
\* ids of track.find_uri(self.type) are taken out (ytm.py:70-99, 208-217)
remote_removed(service, listed, tracks) ==
    SelectSeq(listed, LAMBDA t :
       ~\E k \in DOMAIN tracks : t.uris = find_uri(tracks[k], type_of(service)))

\* the body of the loop of push_playlist over playlist.uris[service_name]
\* after new_tracks and removed_tracks are computed (main.py:267-281)
link_pushed(st, link, new_tracks, removed_tracks) ==
    [remote |-> [st.remote EXCEPT ![link.uri] =
                    remote_removed(link.service,
                       remote_added(link.service, @, new_tracks),
                       removed_tracks)],
     calls |-> st.calls
        \o <<Call("update_metadata", link.uri, <<>>),
             Call("pull_tracks", link.uri, <<>>)>>
        \o (IF new_tracks # <<>>
            THEN <<Call("add_tracks", link.uri, new_tracks)>> ELSE <<>>)
        \o (IF removed_tracks # <<>>
            THEN <<Call("remove_tracks", link.uri, removed_tracks)>> ELSE <<>>)]

\* the body of the loop of push_playlist for one link (main.py:265-281);
\* st holds the remote playlists and the adapter calls made so far
push_link(st, link, tracks) ==
    link_pushed(st, link,
       tracks_to_add(type_of(link.service), st.remote[link.uri], tracks),
       tracks_to_remove(type_of(link.service), st.remote[link.uri], tracks))

\* the loops of push_playlist over the links still to visit
RECURSIVE push_links(_, _, _)
push_links(st, links, tracks) ==
    IF links = <<>> THEN st
    ELSE push_links(push_link(st, Head(links), tracks), Tail(links), tracks)

\* the remote side and the record of the calls after the loops of
\* push_playlist
pushed(playlist_id, st) ==
    /\ \A u \in PlaylistURIs : Len(st.remote[u]) <= MaxPushed
    /\ remote' = st.remote
    /\ last' = [op |-> "push", playlist |-> playlist_id,
                calls |-> st.calls,
                progress |->
                   progress_calls(Len(pushable_services(playlists[playlist_id])))]

\* PlaylistManager.push_playlist
push_playlist(playlist_id) ==
    /\ playlist_id \in DOMAIN playlists
    /\ pushed(playlist_id,
          push_links([remote |-> remote, calls |-> <<>>],
                     links_of(pushable_services(playlists[playlist_id])),
                     deref(playlists[playlist_id].tracks)))
    /\ UNCHANGED <<heap, playlists, alive>>
    /\ UNCHANGED <<engineVars, mergeVars, callVars, serviceVars>>

\* what the queries of one search_playlist call return for a service
Answers(service) == [1..NumQueries -> TrackLists(service, MaxResults)]

\* SpecRecon: one playlist is pulled and searched while the remote side
\* changes
NextRecon ==
    \/ \E p \in PlaylistNames : pull_playlist(p)
    \/ \E p \in PlaylistNames :
          \E ytm \in Answers("ytm"), spotify \in Answers("spotify") :
             search_playlist(p, [ytm |-> ytm, spotify |-> spotify])
    \/ \E u \in PlaylistURIs : \E k \in 1..MaxRemote : remote_remove(u, k)
    \/ \E u \in PlaylistURIs : \E k \in 1..MaxRemote : remote_reupload(u, k)
    \/ \E uri \in alive : uri_dies(uri)

SpecRecon == InitRecon /\ [][NextRecon]_vars

\* SpecLibrary: a second playlist is added and the playlists are pulled,
\* searched and merged into each other; the remote side stays as it is
NextLibrary ==
    \/ \E p \in PlaylistNames : add_playlist(p)
    \/ \E p \in PlaylistNames : pull_playlist(p)
    \/ \E p \in PlaylistNames :
          \E ytm \in Answers("ytm"), spotify \in Answers("spotify") :
             search_playlist(p, [ytm |-> ytm, spotify |-> spotify])
    \/ \E p, q \in PlaylistNames : merge_playlist(p, q)

SpecLibrary == InitRecon /\ [][NextLibrary]_vars

\* SpecFailure: pulls in which an adapter call may raise
NextFailure ==
    \/ \E p \in PlaylistNames : pull_playlist(p)
    \/ \E p \in PlaylistNames, k \in 1..Cardinality(PlaylistURIs) :
          pull_playlist_raising(p, k)
    \/ \E u \in PlaylistURIs, k \in 1..MaxRemote : remote_remove(u, k)
    \/ \E u \in PlaylistURIs, k \in 1..MaxRemote : remote_reupload(u, k)

SpecFailure == InitRecon /\ [][NextFailure]_vars

\* SpecPush: the playlist is pulled, searched and pushed while tracks leave
\* the remote playlists and the service
NextPush ==
    \/ \E p \in PlaylistNames : pull_playlist(p)
    \/ \E p \in PlaylistNames :
          \E ytm \in Answers("ytm"), spotify \in Answers("spotify") :
             search_playlist(p, [ytm |-> ytm, spotify |-> spotify])
    \/ \E p \in PlaylistNames : push_playlist(p)
    \/ \E u \in PlaylistURIs : \E k \in 1..MaxPushed : remote_remove(u, k)
    \/ \E uri \in alive : uri_dies(uri)

SpecPush == InitRecon /\ [][NextPush]_vars

-----------------------------------------------------------------------------
(* SpecCovers: pulls of a playlist linked to Spotify and YouTube Music whose
   remote playlists hold two recordings of one title *)

\* the remote tracks: Spotify lists the title by two artists, YouTube Music
\* lists a video of it without an artist (ytm.py:143-157), and each lists
\* Fireflies.  The two Spotify recordings are not the same for the matcher
\* (0.647), the video is the same as either of them (0.714 and 1)
CoverCatalog(service) ==
    IF service = "ytm"
    THEN {Track(AliasedString("Song", <<>>), <<>>, <<>>, 180,
                <<TrackURI("ytm", "y3")>>),
          Track(AliasedString("Fireflies", <<>>), <<>>, <<OwlCity>>, 228,
                <<TrackURI("ytm", "y1")>>)}
    ELSE {Track(AliasedString("Song", <<>>), <<>>, <<OwlCity>>, 228,
                <<TrackURI("spotify", "s2")>>),
          Track(AliasedString("Song", <<>>), <<>>,
                <<AliasedString("Fireflies", <<>>)>>, 180,
                <<TrackURI("spotify", "s3")>>),
          Track(AliasedString("Fireflies", <<>>), <<>>, <<OwlCity>>, 228,
                <<TrackURI("spotify", "s1")>>)}

CoverLists(service) ==
    {l \in SeqsUpTo(CoverCatalog(service), MaxRemote) : NoDuplicates(l)}

\* playlist.uris in its two insertion orders
CoverLinks ==
    {<<[service |-> "spotify", uris |-> <<"SP1">>],
       [service |-> "ytm", uris |-> <<"PL1">>]>>,
     <<[service |-> "ytm", uris |-> <<"PL1">>],
       [service |-> "spotify", uris |-> <<"SP1">>]>>}

InitCovers ==
    /\ heap = <<>>
    /\ \E uris \in CoverLinks :
         playlists = ("headphones" :> Playlist(uris, <<>>))
    /\ \E sp \in CoverLists("spotify"), yt \in CoverLists("ytm") :
         remote = [u \in PlaylistURIs |->
                      IF u = "SP1" THEN sp ELSE IF u = "PL1" THEN yt ELSE <<>>]
    /\ alive = {TrackURI("ytm", "y1"), TrackURI("ytm", "y3")}
    /\ last = [op |-> "init"]
    /\ IdleEngine
    /\ IdleMerge
    /\ IdleCall
    /\ IdleServices

NextCovers ==
    \/ \E p \in PlaylistNames : pull_playlist(p)
    \/ \E u \in PlaylistURIs : \E k \in 1..MaxRemote : remote_remove(u, k)

SpecCovers == InitCovers /\ [][NextCovers]_vars

-----------------------------------------------------------------------------
(* SpecGrow: pulls and searches of a playlist while the user adds tracks to
   the remote playlists and removes them *)

\* the playlist is linked to one playlist of each service; the remote
\* playlists are empty at first
InitGrow ==
    /\ heap = <<>>
    /\ playlists = ("headphones" :>
          Playlist(<<[service |-> "ytm", uris |-> <<"PL1">>],
                     [service |-> "spotify", uris |-> <<"SP1">>]>>, <<>>))
    /\ remote = [u \in PlaylistURIs |-> <<>>]
    /\ alive = {TrackURI("ytm", "y1"), TrackURI("ytm", "y2"), TrackURI("ytm", "y3")}
    /\ last = [op |-> "init"]
    /\ IdleEngine
    /\ IdleMerge
    /\ IdleCall
    /\ IdleServices

\* the user adds a track to a linked remote playlist in the service's client
remote_add(playlist_uri, t) ==
    /\ \E l \in Range(links_of(playlists["headphones"].uris)) : l.uri = playlist_uri
    /\ Len(remote[playlist_uri]) < MaxRemote
    /\ t \in Catalog(service_of(playlist_uri))
    /\ t \notin Range(remote[playlist_uri])
    /\ remote' = [remote EXCEPT ![playlist_uri] = Append(@, t)]
    /\ last' = [op |-> "remote"]
    /\ UNCHANGED <<heap, playlists, alive>>
    /\ UNCHANGED <<engineVars, mergeVars, callVars, serviceVars>>

NextGrow ==
    \/ \E p \in PlaylistNames : pull_playlist(p)
    \/ \E p \in PlaylistNames :
          \E ytm \in Answers("ytm"), spotify \in Answers("spotify") :
             search_playlist(p, [ytm |-> ytm, spotify |-> spotify])
    \/ \E u \in PlaylistURIs : \E k \in 1..MaxRemote : remote_remove(u, k)
    \/ \E u \in PlaylistURIs :
          \E t \in Catalog("ytm") \cup Catalog("spotify") : remote_add(u, t)

SpecGrow == InitGrow /\ [][NextGrow]_vars

-----------------------------------------------------------------------------
(* SpecPredict: one round of the loop of search_playlist, for a track that
   has URIs in quarantine *)

\* what YouTube Music answers: three uploads of the recording and one of
\* another length (similarity to the searched track 1, 1, 1 and 0.92)
PredictCandidates ==
    {Track(AliasedString("Fireflies", <<>>), <<>>, <<OwlCity>>, 228,
           <<TrackURI("ytm", id)>>) : id \in {"y1", "y2", "y4"}}
    \cup {Track(AliasedString("Fireflies", <<>>), <<>>, <<OwlCity>>, 226,
                <<TrackURI("ytm", "y5")>>)}

\* the searched track: on Spotify only, with earlier YouTube Music URIs in
\* bad_uris
PredictTracks ==
    {[Track(AliasedString("Fireflies", <<>>), <<>>, <<OwlCity>>, 228,
            <<TrackURI("spotify", "s1")>>) EXCEPT !.bad_uris = b] :
        b \in {l \in SeqsUpTo({TrackURI("ytm", id) : id \in {"y1", "y2", "y4"}},
                              MaxQuarantined) : NoDuplicates(l)}}

InitPredict ==
    /\ input \in [track : PredictTracks,
                  results : {<<l>> : l \in {x \in SeqsUpTo(PredictCandidates,
                                                           MaxCandidates) :
                                               NoDuplicates(x)}}]
    /\ output = NotCalled
    /\ IdleEngine
    /\ IdleMerge
    /\ IdleRecon
    /\ IdleServices

\* the body of the loop of search_playlist for one (service, track) pair
\* (main.py:326-332) after get_prediction_track returned predicted
predicted_merged(track, predicted) ==
    [done |-> TRUE,
     predicted |-> predicted,
     track |-> IF predicted # <<>> THEN Track_merge(track, predicted[1]).self
               ELSE track]

predict ==
    /\ ~output.done
    /\ output' = predicted_merged(input.track,
                    get_prediction_track(input.results, input.track, 7))
    /\ UNCHANGED input
    /\ UNCHANGED <<engineVars, mergeVars, reconVars, serviceVars>>

NextPredict == predict

SpecPredict == InitPredict /\ [][NextPredict]_vars

-----------------------------------------------------------------------------
(* SpecRepair: add_changed_uris(playlist.tracks, remote_tracks) for the
   tracks fetched from YouTube Music *)

\* the local tracks: Fireflies with the URIs earlier pulls and searches
\* left it, and Song
RepairTracks ==
    {Track(AliasedString("Fireflies", <<>>), <<>>, <<OwlCity>>, 228, u) :
        u \in {<<>>, <<TrackURI("ytm", "y1")>>, <<TrackURI("ytm", "y2")>>,
               <<TrackURI("spotify", "s1")>>,
               <<TrackURI("spotify", "s1"), TrackURI("ytm", "y1")>>,
               <<TrackURI("ytm", "y2"), TrackURI("spotify", "s1")>>,
               <<TrackURI("ytm", "y1"), TrackURI("ytm", "y2")>>}}
    \cup {Track(AliasedString("Song", <<>>), <<>>, <<>>, 180,
                <<TrackURI("ytm", "y3")>>)}

InitRepair ==
    /\ input \in [tracks : {l \in SeqsUpTo(RepairTracks, MaxLocal) : NoDuplicates(l)},
                  remote_tracks : TrackLists("ytm", MaxRemote)]
    /\ output = NotCalled
    /\ IdleEngine
    /\ IdleMerge
    /\ IdleRecon
    /\ IdleServices

\* add_changed_uris(playlist.tracks, remote_tracks) (main.py:216-217)
call_add_changed_uris ==
    /\ ~output.done
    /\ output' = [done |-> TRUE,
                  tracks |-> add_changed_uris(input.tracks, input.remote_tracks)]
    /\ UNCHANGED input
    /\ UNCHANGED <<engineVars, mergeVars, reconVars, serviceVars>>

NextRepair == call_add_changed_uris

SpecRepair == InitRepair /\ [][NextRepair]_vars

-----------------------------------------------------------------------------
(* SpecMatch: matcher.similarity(track1, track2) on bounded pairs of tracks *)

\* the first track: each feature is there or not
MatchTracks1 ==
    {Track(AliasedString(n, <<>>), al, ar, l, u) :
        n \in Names,
        al \in {<<>>, <<AliasedString("Fireflies", <<>>)>>},
        ar \in {<<>>, <<OwlCity>>},
        l \in {None, 228},
        u \in {<<>>, <<TrackURI("ytm", "y1")>>}}

\* the second track: each feature is missing, equal or different; one name
\* has an alias
MatchTracks2 ==
    {Track(n, al, ar, l, u) :
        n \in {AliasedString(v, <<>>) : v \in Names}
               \cup {AliasedString("Song (Remix)", <<"Song">>)},
        al \in {<<>>, <<AliasedString("Fireflies", <<>>)>>,
                      <<AliasedString("Song", <<>>)>>},
        ar \in {<<>>, <<OwlCity>>, <<AliasedString("Song", <<>>)>>},
        l \in {None, 228, 226},
        u \in {<<>>, <<TrackURI("ytm", "y1")>>, <<TrackURI("ytm", "y2")>>}}

InitMatch ==
    /\ input \in [track1 : MatchTracks1, track2 : MatchTracks2]
    /\ output = NotCalled
    /\ IdleEngine
    /\ IdleMerge
    /\ IdleRecon
    /\ IdleServices

\* matcher.similarity(track1, track2) and matcher.are_same(track1, track2);
\* scores is the dict feature_scores of the call when it gets that far
compare ==
    /\ ~output.done
    /\ output' = [done |-> TRUE,
                  similarity |-> similarity(input.track1, input.track2),
                  are_same |-> are_same(input.track1, input.track2),
                  scores |-> feature_scores(input.track1, input.track2)]
    /\ UNCHANGED input
    /\ UNCHANGED <<engineVars, mergeVars, reconVars, serviceVars>>

NextMatch == compare

SpecMatch == InitMatch /\ [][NextMatch]_vars

-----------------------------------------------------------------------------
(* SpecSearch: searcher.search(service, track, limit) on the answers of a
   service *)

\* the tracks a service may answer with: their similarity to Fireflies by
\* Owl City, 228 s, is 1, 0.92, 0.83, 0.745 and 0.5
SearchCandidates ==
    {Track(AliasedString("Fireflies", <<>>), <<>>, <<OwlCity>>, 228,
           <<TrackURI("ytm", "y1")>>),
     Track(AliasedString("Fireflies", <<>>), <<>>, <<OwlCity>>, 226,
           <<TrackURI("ytm", "y2")>>),
     Track(AliasedString("Fireflies", <<>>), <<>>, <<>>, 225,
           <<TrackURI("spotify", "s1")>>),
     Track(AliasedString("Owl City", <<>>), <<>>, <<OwlCity>>, 228,
           <<TrackURI("ytm", "y4")>>),
     Track(AliasedString("Song", <<>>), <<>>, <<OwlCity>>, 228,
           <<TrackURI("ytm", "y3")>>)}

\* the tracks searched for
SearchedTracks ==
    {Track(AliasedString("Fireflies", <<>>), <<>>, <<OwlCity>>, 228, <<>>),
     Track(AliasedString("Song", <<>>), <<>>, <<>>, 226, <<>>)}

\* results[k] is what service.search_query returns for the k-th query
InitSearch ==
    /\ input \in [results : [1..SearchQueries ->
                                SeqsUpTo(SearchCandidates, SearchResults)],
                   track : SearchedTracks,
                   limit : 1..MaxLimit]
    /\ output = NotCalled
    /\ IdleEngine
    /\ IdleMerge
    /\ IdleRecon
    /\ IdleServices

\* searcher.search(service, track, limit)
searcher_search ==
    /\ ~output.done
    /\ output' = [done |-> TRUE,
                  matches |-> search(input.results, input.track, input.limit),
                  issued |-> issued_queries(1, input.results, input.track)]
    /\ UNCHANGED input
    /\ UNCHANGED <<engineVars, mergeVars, reconVars, serviceVars>>

NextSearch == searcher_search

SpecSearch == InitSearch /\ [][NextSearch]_vars

-----------------------------------------------------------------------------
(* SpecAlias: an AliasedString, constructed and then changed by add_alias
   and merge *)

\* AliasedString.__init__ (track.py:14-19): list(set(aliases)) keeps each
\* alias once in an order the set decides, so every order is possible
AliasedString_init(value, aliases) ==
    {[value |-> value, aliases |-> al] :
        al \in {x \in SeqsUpTo(Range(aliases), Len(aliases)) :
                  /\ NoDuplicates(x)
                  /\ Range(x) = Range(aliases) \ {value}}}

\* the lists a constructor is called with: duplicates and the value included
RawAliases == SeqsUpTo(Strings, MaxAliases + 1)

\* every object a constructor can make
Constructed ==
    UNION {AliasedString_init(v, al) : v \in Strings, al \in RawAliases}

InitAlias ==
    /\ \E v \in Strings, al \in RawAliases :
         /\ input = [op |-> "init", value |-> v, aliases |-> al]
         /\ output \in AliasedString_init(v, al)
    /\ IdleEngine
    /\ IdleMerge
    /\ IdleRecon
    /\ IdleServices

\* s.add_alias(alias) on the object output
call_add_alias(alias) ==
    /\ input' = [op |-> "add_alias", s |-> output, alias |-> alias]
    /\ output' = add_alias(output, alias)
    /\ UNCHANGED <<engineVars, mergeVars, reconVars, serviceVars>>

\* s.merge(o) on the object output; again tells that the call before was
\* s.merge(o) with an equal o
call_merge(o) ==
    /\ input' = [op |-> "merge", s |-> output, o |-> o,
                 again |-> (input.op = "merge" /\ input.o = o)]
    /\ output' = AliasedString_merge(output, o)
    /\ UNCHANGED <<engineVars, mergeVars, reconVars, serviceVars>>

NextAlias ==
    \/ \E alias \in Strings : call_add_alias(alias)
    \/ \E o \in Constructed \cup {output} : call_merge(o)

SpecAlias == InitAlias /\ [][NextAlias]_vars

-----------------------------------------------------------------------------
(* SpecUri: the concrete URI classes of src/unitunes/uri.py.  A string is a
   sequence of pieces: single characters, and longer pieces that hold neither
   "/" nor "=" *)

UriClasses ==
    {"SpotifyTrackURI", "SpotifyPlaylistURI", "YtmTrackURI", "YtmPlaylistURI",
     "MB_RECORDING_URI", "MB_RELEASE_URI"}

\* the constant beginning of the url of a class
UrlPrefix(cls) ==
    CASE cls = "SpotifyTrackURI" ->
            <<"https:", "/", "/", "open.spotify.com", "/", "track", "/">>
      [] cls = "SpotifyPlaylistURI" ->
            <<"https:", "/", "/", "open.spotify.com", "/", "playlist", "/">>
      [] cls = "YtmTrackURI" ->
            <<"https:", "/", "/", "music.youtube.com", "/", "watch?v", "=">>
      [] cls = "YtmPlaylistURI" ->
            <<"https:", "/", "/", "music.youtube.com", "/", "playlist?list", "=">>
      [] cls = "MB_RECORDING_URI" ->
            <<"https:", "/", "/", "musicbrainz.org", "/", "recording", "/">>
      [] cls = "MB_RELEASE_URI" ->
            <<"https:", "/", "/", "musicbrainz.org", "/", "release", "/">>

\* the separator url_to_uri of a class splits the url on
UrlSeparator(cls) ==
    IF cls \in {"YtmTrackURI", "YtmPlaylistURI"} THEN "=" ELSE "/"

\* the strings "Liked Songs" and "spotify:liked_songs"
LikedSongsId == <<"Liked Songs">>

LikedSongsUrl == <<"spotify:liked_songs">>

\* url.split(sep)[-1]: what follows the last sep, the whole url without one
RECURSIVE split_last(_, _)
split_last(url, sep) ==
    IF url = <<>> THEN <<>>
    ELSE IF url[Len(url)] = sep THEN <<>>
         ELSE Append(split_last(SubSeq(url, 1, Len(url) - 1), sep), url[Len(url)])

\* url.startswith(prefix)
startswith(url, prefix) ==
    /\ Len(url) >= Len(prefix)
    /\ SubSeq(url, 1, Len(prefix)) = prefix

\* Cls.uri_to_url
uri_to_url(cls, uri) ==
    IF cls = "SpotifyPlaylistURI" /\ uri = LikedSongsId
    THEN LikedSongsUrl
    ELSE UrlPrefix(cls) \o uri

\* url_to_uri without the liked songs case of SpotifyPlaylistURI
url_to_uri_split(cls, url) == split_last(url, UrlSeparator(cls))

\* Cls.url_to_uri
url_to_uri(cls, url) ==
    IF cls = "SpotifyPlaylistURI" /\ url = LikedSongsUrl
    THEN LikedSongsId
    ELSE split_last(url, UrlSeparator(cls))

\* Cls.valid_url
valid_url(cls, url) ==
    \/ startswith(url, UrlPrefix(cls))
    \/ cls = "SpotifyPlaylistURI" /\ url = LikedSongsUrl

\* Cls.from_uri: the object cls(uri=uri, url=cls.uri_to_url(uri))
from_uri(cls, uri) == [cls |-> cls, uri |-> uri, url |-> uri_to_url(cls, uri)]

\* Cls.from_url
from_url(cls, url) == from_uri(cls, url_to_uri(cls, url))

\* SpotifyPlaylistURI.is_liked_songs
is_liked_songs(u) == u.uri = LikedSongsId

\* the ids: every string of up to MaxIdLen characters, and "Liked Songs"
IdChars == {"a", "/", "="}

Ids == SeqsUpTo(IdChars, MaxIdLen) \cup {LikedSongsId}

InitUri ==
    /\ input \in [cls : UriClasses, id : Ids]
    /\ output = NotCalled
    /\ IdleEngine
    /\ IdleMerge
    /\ IdleRecon
    /\ IdleServices

\* uri = Cls.from_uri(id); back = Cls.from_url(uri.url)
round_trip ==
    /\ ~output.done
    /\ output' = [done |-> TRUE,
                  uri |-> from_uri(input.cls, input.id),
                  back |-> from_url(input.cls, from_uri(input.cls, input.id).url),
                  valid |-> valid_url(input.cls, from_uri(input.cls, input.id).url)]
    /\ UNCHANGED input
    /\ UNCHANGED <<engineVars, mergeVars, reconVars, serviceVars>>

NextUri == round_trip

SpecUri == InitUri /\ [][NextUri]_vars

-----------------------------------------------------------------------------
(* SpecServices: PlaylistManager.add_service and remove_service on an index,
   the directory service_configs and two playlists *)

ServiceNames == {"spotify", "ytm"}

\* PlaylistManager.playlists in the order of its keys, that of
\* index.playlists (main.py:82-83)
playlist_order == <<"headphones", "other">>

\* the uris a playlist may have: each service linked to one playlist or not
ServiceLinks ==
    {<<>>,
     <<[service |-> "spotify", uris |-> <<"SP1">>]>>,
     <<[service |-> "ytm", uris |-> <<"PL1">>]>>,
     <<[service |-> "spotify", uris |-> <<"SP1">>],
       [service |-> "ytm", uris |-> <<"PL1">>]>>}

\* the keys of playlist.uris
linked_services(pl) == {pl.uris[i].service : i \in DOMAIN pl.uris}

\* the playlists link services of the index only; a service added as the
\* GUI does has its file in service_configs, one added by the service add
\* command has not
InitServices ==
    /\ index \in SUBSET ServiceNames
    /\ configs \in SUBSET index
    /\ playlists \in {pls \in [Range(playlist_order) ->
                                 {Playlist(uris, <<>>) : uris \in ServiceLinks}] :
                         \A p \in DOMAIN pls : linked_services(pls[p]) \subseteq index}
    /\ heap = <<>>
    /\ remote = <<>>
    /\ alive = {}
    /\ last = [op |-> "init"]
    /\ IdleEngine
    /\ IdleMerge
    /\ IdleCall

\* PlaylistManager.add_service (main.py:104-108), after the caller has saved
\* the config in service_configs (gui/main.py:550-551) or not
\* (service_cli.py:35); Index.add_service raises ValueError for a name of
\* the index
add_service(name, saved) ==
    /\ IF name \in index
       THEN /\ last' = [op |-> "add_service", name |-> name,
                        raised |-> "ValueError"]
            /\ UNCHANGED index
       ELSE /\ last' = [op |-> "add_service", name |-> name, raised |-> "none"]
            /\ index' = index \cup {name}
    /\ configs' = IF saved THEN configs \cup {name} ELSE configs
    /\ UNCHANGED <<heap, playlists, remote, alive>>
    /\ UNCHANGED <<engineVars, mergeVars, callVars>>

\* Playlist.remove_service: del self.uris[service_name]
Playlist_remove_service(pl, service_name) ==
    [pl EXCEPT !.uris = SelectSeq(@, LAMBDA x : x.service # service_name)]

\* the positions in playlist_order of the playlists for which
\* del self.uris[name] raises KeyError
unlinked(name) ==
    {i \in DOMAIN playlist_order : name \notin linked_services(playlists[playlist_order[i]])}

\* the loop of remove_service over the playlists (main.py:116-117): it ends
\* at the first playlist that raises
remove_from_playlists(name) ==
    [p \in DOMAIN playlists |->
        IF \A i \in unlinked(name) : \E j \in 1..(i - 1) : playlist_order[j] = p
        THEN Playlist_remove_service(playlists[p], name)
        ELSE playlists[p]]

\* PlaylistManager.remove_service (main.py:110-119)
remove_service(name) ==
    /\ IF name \notin index
       THEN /\ last' = [op |-> "remove_service", name |-> name,
                        raised |-> "ValueError"]
            /\ UNCHANGED <<index, configs, playlists>>
       ELSE /\ index' = index \ {name}
            /\ IF name \notin configs
               THEN /\ last' = [op |-> "remove_service", name |-> name,
                                raised |-> "FileNotFoundError"]
                    /\ UNCHANGED <<configs, playlists>>
               ELSE /\ configs' = configs \ {name}
                    /\ playlists' = remove_from_playlists(name)
                    /\ last' = [op |-> "remove_service", name |-> name,
                                raised |-> IF unlinked(name) = {} THEN "none"
                                           ELSE "KeyError"]
    /\ UNCHANGED <<heap, remote, alive>>
    /\ UNCHANGED <<engineVars, mergeVars, callVars>>

NextServices ==
    \/ \E name \in ServiceNames, saved \in BOOLEAN : add_service(name, saved)
    \/ \E name \in ServiceNames : remove_service(name)

SpecServices == InitServices /\ [][NextServices]_vars

-----------------------------------------------------------------------------
(* Claims about the job engine, checked under SpecEngine *)

RunningJobs == {i \in DOMAIN jobs : jobs[i].status = "RUNNING"}

\* C1: at every moment at most one Job has status RUNNING, counting every
\* Engine instance and worker thread the GUI creates.
C1_AtMostOneRunning == Cardinality(RunningJobs) <= 1

StatusStep(old, new) ==
    \/ new = old
    \/ old = "PENDING" /\ new = "RUNNING"
    \/ old = "RUNNING" /\ new \in {"SUCCESS", "FAILED"}

\* C2: a job's status only follows PENDING -> RUNNING -> SUCCESS or
\* PENDING -> RUNNING -> FAILED; SUCCESS and FAILED are absorbing, CANCELLED
\* is never reached and the assert after a job never fails.
C2_StatusOrder ==
    [][/\ \A i \in DOMAIN jobs : StatusStep(jobs[i].status, jobs'[i].status)
       /\ ~asserted']_vars

\* C3: the worker loop never terminates because of a job: whatever raises
\* while a job is processed, the worker goes on to the next queued job.
C3_WorkerNeverDies == \A w \in DOMAIN workers : workers[w].pc # "dead"

Terminal(i) == jobs[i].status \in {"SUCCESS", "FAILED"}

\* C4: jobs start running in the order push_job was called: a job is RUNNING
\* only once every job pushed earlier is finished, and ids are unique.
C4_FifoOrder ==
    /\ \A k \in DOMAIN started : started[k] = k - 1
    /\ \A i, j \in DOMAIN jobs :
         (i < j /\ jobs[j].status # "PENDING") => Terminal(i)
    /\ gui.pc # "idle" => gui.job = Len(jobs) - 1

-----------------------------------------------------------------------------
(* Claims about pull and search, checked under SpecRecon *)

\* the URIs of the remote tracks a pull of the playlist fetches
Fetched(pl) ==
    UNION {Range(tracks_to_uris(remote[l.uri])) :
              l \in Range(links_of(SelectSeq(pl.uris,
                             LAMBDA x : PlaylistPullable(x.service))))}

\* C5: pull is idempotent: a pull_playlist of a playlist right after a
\* pull_playlist of the same playlist, the remote contents unchanged,
\* computes empty new_tracks, missing_uris and invalid_uris and leaves every
\* track and the track list as they were.
C5_PullIdempotent ==
    [][(last.op = "pull" /\ last'.op = "pull" /\ last'.playlist = last.playlist)
          => /\ last'.new_tracks = <<>>
             /\ last'.missing_uris = <<>>
             /\ last'.invalid_uris = <<>>
             /\ heap' = heap
             /\ playlists' = playlists]_vars

\* what a pull owes to URI u of the k-th track of the playlist: u is not in
\* the track's uris afterwards, it is in bad_uris if the track held it, and
\* the track is still in the playlist
Quarantined(p, k, u) ==
    LET id == playlists[p].tracks[k]
    IN /\ u \notin Range(heap'[id].uris)
       /\ u \in Range(heap[id].uris) => u \in Range(heap'[id].bad_uris)
       /\ id \in Range(playlists'[p].tracks)

\* u is a URI the k-th track of the playlist holds or has quarantined, on a
\* Checkable service, absent from the fetched remote tracks and not alive
DeadAndGone(p, k, u) ==
    LET t == heap[playlists[p].tracks[k]]
    IN /\ u \in Range(t.uris) \cup Range(t.bad_uris)
       /\ Checkable(u.service)
       /\ u \notin Fetched(playlists[p])
       /\ ~is_uri_alive(u)

\* the track URIs of the services
AllURIs == UNION {Range(t.uris) : t \in Catalog("ytm") \cup Catalog("spotify")}

\* C6 as stated: a URI of a local track on a Checkable service that is no
\* longer among the fetched remote tracks and is not alive is, after
\* pull_playlist, out of the track's uris and in its bad_uris, the track is
\* still in the playlist, and a further pull does not put it back.
C6_DeadUriQuarantined ==
    [][last'.op = "pull" =>
          \A k \in DOMAIN playlists[last'.playlist].tracks : \A u \in AllURIs :
             DeadAndGone(last'.playlist, k, u) => Quarantined(last'.playlist, k, u)]_vars

\* C6 amended: the same, for a playlist linked to a remote playlist on the
\* URI's service and a URI the URI-repair step of this pull has not replaced
\* on the track.
C6_DeadUriQuarantinedUnlessRepaired ==
    [][last'.op = "pull" =>
          \A k \in DOMAIN playlists[last'.playlist].tracks : \A u \in AllURIs :
             (/\ DeadAndGone(last'.playlist, k, u)
              /\ uris_of(playlists[last'.playlist], u.service) # <<>>
              /\ <<k, u>> \notin last'.repaired)
                => Quarantined(last'.playlist, k, u)]_vars

\* a pull has found a dead URI missing from the remote and moved it from a
\* track's uris to its bad_uris
C6_Witness ==
    /\ last.op = "pull"
    /\ \E k \in DOMAIN playlists[last.playlist].tracks :
          LET t == heap[playlists[last.playlist].tracks[k]]
          IN \E u \in Range(last.invalid_uris) :
                /\ u \in Range(t.bad_uris)
                /\ u \notin Range(t.uris)
                /\ ~is_uri_alive(u)
                /\ u \notin Fetched(playlists[last.playlist])

\* C7: search never re-applies a quarantined suggestion: get_prediction_track
\* returns no candidate carrying a URI of the track's bad_uris, and
\* search_playlist adds to a track's uris no URI of that track's bad_uris.
C7_SearchSkipsBadUris ==
    [][last'.op = "search" =>
          \A k \in DOMAIN playlists[last'.playlist].tracks :
             LET id == playlists[last'.playlist].tracks[k]
             IN /\ \A x \in last'.predicted :
                      x[1] = k => \A uri \in Range(x[2].uris) :
                                     uri \notin Range(heap[id].bad_uris)
                /\ \A uri \in Range(heap'[id].uris) :
                      uri \notin Range(heap[id].uris)
                         => uri \notin Range(heap[id].bad_uris)]_vars

\* a search in which the service offered, for a track, a candidate that is
\* the same track and carries a URI of the track's bad_uris
C7_Witness ==
    /\ last.op = "search"
    /\ \E x \in last.rejected :
          LET t == heap[playlists[last.playlist].tracks[x[1]]]
          IN /\ are_same(t, x[2])
             /\ \E uri \in Range(x[2].uris) :
                   uri \in Range(t.bad_uris) /\ uri \notin Range(t.uris)

-----------------------------------------------------------------------------
(* Claims about merge_playlist, checked under SpecLibrary *)

\* C8: no Track object is shared between two playlists: whatever
\* add_playlist, pull, search and merge_playlist have done, no Track object
\* is in the track lists of two playlists.
C8_NoSharedTrack ==
    \A p \in DOMAIN playlists : \A q \in DOMAIN playlists :
       p # q => Range(playlists[p].tracks) \cap Range(playlists[q].tracks) = {}

-----------------------------------------------------------------------------
(* Claims about Track.merge, checked under SpecMerge *)

\* C9: after a.merge(b), a.uris is the old a.uris followed by the URIs of b
\* that a did not have, each once and in b's order; no URI of a is removed,
\* and duplicate-free inputs give a duplicate-free result.
C9_MergeUris ==
    called =>
      /\ self.uris = self0.uris \o
            Distinct(SelectSeq(other0.uris, LAMBDA u : u \notin Range(self0.uris)))
      /\ SubSeq(self.uris, 1, Len(self0.uris)) = self0.uris
      /\ (NoDuplicates(self0.uris) /\ NoDuplicates(other0.uris))
            => NoDuplicates(self.uris)

\* a call that had a URI to append and a shared URI to skip
C9_Witness ==
    /\ called
    /\ Len(self.uris) > Len(self0.uris)
    /\ Range(self0.uris) \cap Range(other0.uris) # {}

AllValues(s) == Range(all_values(s))

\* the receiver's list took up everything of the argument's list: its old
\* elements hold the values of the elements of other_list they share an alias
\* with, and the elements of other_list that share no alias with an earlier
\* element are appended
Unioned(list0, list_, other_list) ==
    /\ Len(list_) >= Len(list0)
    /\ \A i \in DOMAIN list0 : \A y \in Range(other_list) :
         shares_alias(y, list0[i]) => AllValues(y) \subseteq AllValues(list_[i])
    /\ \A j \in DOMAIN other_list :
         (/\ \A x \in Range(list0) : ~shares_alias(other_list[j], x)
          /\ \A k \in 1..(j - 1) : ~shares_alias(other_list[j], other_list[k]))
            => \E i \in DOMAIN list_ : i > Len(list0) /\ list_[i] = other_list[j]

\* C10: after a.merge(b) every artist (album) of a that shares an alias with
\* an artist (album) y of b holds every value and alias of y, the artists
\* (albums) of b that share none are appended, and a.length becomes b.length
\* exactly when a.length was absent and b.length present.
C10_MergeAliases ==
    called =>
      /\ Unioned(self0.artists, self.artists, other0.artists)
      /\ Unioned(self0.albums, self.albums, other0.albums)
      /\ self.length = IF self0.length = None /\ other0.length # None
                       THEN other0.length ELSE self0.length

-----------------------------------------------------------------------------
(* Claims about the matcher, checked under SpecMatch *)

\* C11: two tracks whose uris share a URI have similarity exactly 1, and
\* are the same at every threshold up to 1, whatever their other fields are
C11_SharedUriIsOne ==
    (output.done /\ shares_uri(input.track1, input.track2)) =>
       /\ output.similarity.num = 1000 * output.similarity.den
       /\ output.are_same
       /\ \A p \in 0..10 : AtLeast(output.similarity, p)

C11_Witness ==
    /\ output.done
    /\ shares_uri(input.track1, input.track2)
    /\ input.track1.name.value = "Song"
    /\ input.track2.name.value = "Owl City"
    /\ input.track1.length # input.track2.length
    /\ input.track1.artists # input.track2.artists

\* the name contains one of the special terms, whatever the case
has_keyword(name) ==
    \E k \in DOMAIN special_terms :
       contains(lower(name.value), Chars(special_terms[k]))

\* the case of the veto: no shared URI, no aliases on the names, a special
\* term in exactly one of the names
Vetoed(track1, track2) ==
    /\ ~shares_uri(track1, track2)
    /\ track1.name.aliases = <<>>
    /\ track2.name.aliases = <<>>
    /\ has_keyword(track1.name) # has_keyword(track2.name)

\* C12: when exactly one of two names without aliases contains a special
\* term and the tracks share no URI, the name feature scores 0 and the
\* similarity is below 0.7, so the tracks are not the same
C12_KeywordVeto ==
    (output.done /\ Vetoed(input.track1, input.track2)) =>
       /\ output.scores.name = 0
       /\ ~AtLeast(output.similarity, 7)
       /\ ~output.are_same

\* the veto acts on a pair that agrees on everything else
C12_Witness ==
    /\ output.done
    /\ Vetoed(input.track1, input.track2)
    /\ input.track1.name.value = "Song"
    /\ input.track2.name.value = "Song (Remix)"
    /\ input.track1.albums = input.track2.albums /\ input.track1.albums # <<>>
    /\ input.track1.artists = input.track2.artists /\ input.track1.artists # <<>>
    /\ input.track1.length = 228 /\ input.track2.length = 228

-----------------------------------------------------------------------------
(* Claims about the searcher, checked under SpecSearch *)

\* the k-th query returned a candidate at least 0.8 similar to the track
Reaches(k) ==
    \E m \in Range(input.results[k]) :
       AtLeast(similarity(input.track, m), stop_threshold)

\* C13: the queries are issued in the order of query_generator, each at most
\* once; no query is issued after one whose results hold a candidate of
\* similarity 0.8 or more; when no round reaches 0.8 every query is issued
C13_EarlyStop ==
    output.done =>
       /\ \A i \in DOMAIN output.issued : output.issued[i] = i
       /\ Len(output.issued) <= SearchQueries
       /\ \A i \in DOMAIN output.issued :
             Reaches(output.issued[i]) => i = Len(output.issued)
       /\ (\A k \in 1..SearchQueries : ~Reaches(k)) =>
             Len(output.issued) = SearchQueries

\* the first query reaches 0.8 and the second, which would have answered,
\* is not issued
C13_Witness ==
    /\ output.done
    /\ Reaches(1)
    /\ input.results[2] # <<>>
    /\ output.issued = <<1>>

\* all results of the queries issued
Returned == UNION {Range(input.results[k]) : k \in Range(output.issued)}

Min(a, b) == IF a < b THEN a ELSE b

\* C14: search returns at most limit tracks, no track twice, best first,
\* and they are the limit most similar of all results of the queries issued
C14_RankedTopLimit ==
    output.done =>
       /\ Len(output.matches) <= input.limit
       /\ NoDuplicates(output.matches)
       /\ \A i, j \in DOMAIN output.matches :
             i < j => ~Greater(similarity(input.track, output.matches[j]),
                               similarity(input.track, output.matches[i]))
       /\ Range(output.matches) \subseteq Returned
       /\ Len(output.matches) = Min(input.limit, Cardinality(Returned))
       /\ \A m \in Returned \ Range(output.matches) :
             \A i \in DOMAIN output.matches :
                ~Greater(similarity(input.track, m),
                         similarity(input.track, output.matches[i]))

\* more distinct results than limit, returned in rising order and twice
C14_Witness ==
    /\ output.done
    /\ Cardinality(Returned) > input.limit
    /\ Len(output.issued) = 2
    /\ Len(output.matches) = 2
    /\ \E m \in Range(input.results[1]) : m \in Range(input.results[2])
    /\ output.matches[1] \in Range(input.results[2])
    /\ output.matches[1] \notin Range(input.results[1])
    /\ Greater(similarity(input.track, output.matches[1]),
               similarity(input.track, output.matches[2]))

-----------------------------------------------------------------------------
(* Claims about AliasedString, checked under SpecAlias *)

\* C15: after the constructor and after every add_alias and merge, aliases
\* holds no string twice and does not hold value
C15_AliasInvariant ==
    /\ NoDuplicates(output.aliases)
    /\ output.value \notin Range(output.aliases)

\* a merge of an object that holds the receiver's value and one of its
\* aliases, and a string that is new to the receiver
C15_Witness ==
    /\ input.op = "merge"
    /\ input.s.value \in Range(input.o.aliases)
    /\ \E a \in Range(input.s.aliases) : a \in Range(all_values(input.o))
    /\ output # input.s

\* C16: after s.merge(o) the alias set of s is its old aliases and the value
\* and aliases of o, without the value of s; a second s.merge(o) leaves the
\* alias set as the first left it
C16_MergeIdempotent ==
    [][input'.op = "merge" =>
         /\ Range(output'.aliases) =
               (Range(input'.s.aliases) \cup Range(all_values(input'.o)))
                  \ {input'.s.value}
         /\ input'.again => Range(output'.aliases) = Range(output.aliases)]_vars

\* the second of two equal merges that had something to add
C16_Witness ==
    /\ input.op = "merge"
    /\ input.again
    /\ input.o.aliases # <<>>
    /\ input.o.value # input.s.value
    /\ Range(all_values(input.o)) \subseteq Range(all_values(output))

-----------------------------------------------------------------------------
(* Claims about the URI classes, checked under SpecUri *)

\* the round trip of one call: from_url gives back the object, valid_url
\* accepts its url, and "Liked Songs" has the url "spotify:liked_songs"
RoundTrips ==
    /\ output.back = output.uri
    /\ output.valid
    /\ (input.cls = "SpotifyPlaylistURI" /\ input.id = LikedSongsId) =>
          /\ output.uri.url = LikedSongsUrl
          /\ is_liked_songs(output.uri)

-----------------------------------------------------------------------------
(* Claims about failing adapter calls, checked under SpecFailure *)

\* the links of the playlist of the last operation
LastLinks == links_of(pullable_services(playlists[last.playlist]))

\* the results of a link are applied: each of its remote tracks has its URI
\* on a track of the playlist
Applied(link) ==
    \A t \in Range(remote[link.uri]) :
       \E id \in Range(playlists[last.playlist].tracks) : shares_uri(heap[id], t)

\* C18: when an adapter call raises for one link of a pull, the remote
\* tracks of every other link are still fetched and their results applied
C18_FailureIsolated ==
    last.op = "pull_raised" =>
       \A j \in DOMAIN LastLinks :
          j # last.raised => (j \in last.fetched /\ Applied(LastLinks[j]))

-----------------------------------------------------------------------------
(* Claims about the progress callback, checked under SpecRecon *)

\* the services the last operation processed
ServicesProcessed ==
    IF last.op = "pull"
    THEN Len(pullable_services(playlists[last.playlist]))
    ELSE Len(searchable_services(playlists[last.playlist]))

\* C19: the progress callback of a pull or search is called once per
\* completed service with (completed, total), total being the number of
\* services processed and the same in every call; completed never falls,
\* never exceeds total and is total at the end
C19_ProgressPerService ==
    last.op \in {"pull", "search"} =>
       /\ Len(last.progress) = ServicesProcessed + 1
       /\ \A i \in DOMAIN last.progress :
             /\ last.progress[i][2] = ServicesProcessed
             /\ last.progress[i][1] <= last.progress[i][2]
             /\ i > 1 => last.progress[i - 1][1] <= last.progress[i][1]
       /\ last.progress[Len(last.progress)][1] = ServicesProcessed

-----------------------------------------------------------------------------
(* Claims about the services of the index, checked under SpecServices *)

\* C20: remove_service(name) with name in the index ends without error and
\* leaves name neither in index.services nor among the keys of any
\* playlist's uris, whether the playlists were linked to it or not; with
\* name not in the index it raises ValueError and changes nothing
C20_RemoveService ==
    [][last'.op = "remove_service" =>
         IF last'.name \in index
         THEN /\ last'.raised = "none"
              /\ last'.name \notin index'
              /\ \A p \in DOMAIN playlists' :
                    last'.name \notin linked_services(playlists'[p])
         ELSE /\ last'.raised = "ValueError"
              /\ index' = index
              /\ playlists' = playlists]_vars

-----------------------------------------------------------------------------
\* C21: for tracks with no shared URI the similarity is the weighted mean
\* (weights name 50, album 20, artists 30, length 20) over the features
\* present; when exactly one of the two artist lists is empty the artists
\* feature takes part in the mean with the score 0.5; and the result lies in
\* [0, 1].
OneArtistListEmpty ==
    (input.track1.artists = <<>>) # (input.track2.artists = <<>>)

C21_ArtistsNeutral ==
    (output.done /\ ~shares_uri(input.track1, input.track2))
        => /\ output.similarity = weighted(output.scores)
           /\ 0 <= output.similarity.num
           /\ output.similarity.num <= 1000 * output.similarity.den
           /\ OneArtistListEmpty
                 => /\ "artists" \in DOMAIN output.scores
                    /\ output.scores["artists"] = 500

-----------------------------------------------------------------------------
\* C22: for each linked PlaylistURI of a Pushable service push_playlist
\* calls update_metadata before pull_tracks and before any add_tracks or
\* remove_tracks; add_tracks is called only with a non-empty list, the local
\* tracks on the service with no same-service match in the remote playlist;
\* remove_tracks only with a non-empty list, the remote tracks on the
\* service with no same-service match locally; and the local playlist's
\* tracks and uris stay as they were.
Unmatched(service, tracks, others, local_first) ==
    SelectSeq(tracks, LAMBDA t :
       /\ is_on_service(t, service)
       /\ ~\E o \in Range(others) :
             /\ is_on_service(o, service)
             /\ IF local_first THEN are_same(t, o) ELSE are_same(o, t))

PushCallsOrdered(calls, links) ==
    \A l \in Range(links) :
       \E i, j \in DOMAIN calls :
          /\ i < j
          /\ calls[i] = Call("update_metadata", l.uri, <<>>)
          /\ calls[j] = Call("pull_tracks", l.uri, <<>>)
          /\ \A k \in DOMAIN calls :
                (calls[k].uri = l.uri /\ calls[k].method \in {"add_tracks", "remove_tracks"})
                   => j < k

PushCallsExact(calls, links, local) ==
    \A k \in DOMAIN calls :
       /\ \E l \in Range(links) : l.uri = calls[k].uri
       /\ calls[k].method = "add_tracks"
             => /\ calls[k].tracks # <<>>
                /\ calls[k].tracks =
                      Unmatched(service_of(calls[k].uri), local,
                                remote[calls[k].uri], TRUE)
       /\ calls[k].method = "remove_tracks"
             => /\ calls[k].tracks # <<>>
                /\ calls[k].tracks =
                      Unmatched(service_of(calls[k].uri), remote[calls[k].uri],
                                local, FALSE)

C22_PushProtocol ==
    [][last'.op = "push"
          => /\ PushCallsOrdered(last'.calls,
                   links_of(pushable_services(playlists[last'.playlist])))
             /\ PushCallsExact(last'.calls,
                   links_of(pushable_services(playlists[last'.playlist])),
                   deref(playlists[last'.playlist].tracks))
             /\ heap' = heap
             /\ playlists' = playlists]_vars

\* a push that both added and removed tracks
C22_Witness ==
    /\ last.op = "push"
    /\ \E k \in DOMAIN last.calls : last.calls[k].method = "add_tracks"
    /\ \E k \in DOMAIN last.calls : last.calls[k].method = "remove_tracks"

-----------------------------------------------------------------------------
\* C23: in the merge step of a pull each new remote track is either merged
\* into one local track that is the same song or, when no local track
\* matches, appended once at the end of playlist.tracks; so after a pull no
\* track URI is held by two different tracks of the playlist, given that
\* this held before the pull.
UrisUnique(tracks) ==
    \A i, j \in DOMAIN tracks :
       i # j => Range(tracks[i].uris) \cap Range(tracks[j].uris) = {}

\* the tracks of the list that took the URI of the new track
Holders(tracks, new_track) ==
    {i \in DOMAIN tracks :
        \E u \in Range(new_track.uris) :
           u \in Range(tracks[i].uris) \cup Range(tracks[i].bad_uris)}

TracksBefore == deref(playlists[last'.playlist].tracks)

TracksAfter ==
    [i \in DOMAIN playlists'[last'.playlist].tracks |->
        heap'[playlists'[last'.playlist].tracks[i]]]

C23_MergedOrAppendedOnce ==
    [][last'.op = "pull"
          => /\ \A k \in DOMAIN last'.new_tracks :
                   Cardinality(Holders(TracksAfter, last'.new_tracks[k])) = 1
             /\ UrisUnique(TracksBefore) => UrisUnique(TracksAfter)]_vars

-----------------------------------------------------------------------------
\* C24: candidates carrying a URI of the track's bad_uris are removed before
\* the candidates are ranked and cut to the limit: when the issued queries
\* return a candidate that carries no quarantined URI and is at least 0.7
\* similar, the search links the track to the best such candidate, however
\* many quarantined candidates score higher.
Acceptable ==
    {c \in UNION {Range(input.results[k]) :
                     k \in Range(issued_queries(1, input.results, input.track))} :
        /\ ~\E uri \in Range(c.uris) : uri \in Range(input.track.bad_uris)
        /\ AtLeast(similarity(input.track, c), 7)}

C24_BadFilteredBeforeCut ==
    (output.done /\ Acceptable # {})
        => /\ output.predicted # <<>>
           /\ output.predicted[1] \in Acceptable
           /\ \A c \in Acceptable :
                 ~Greater(similarity(input.track, c),
                          similarity(input.track, output.predicted[1]))
           /\ \A uri \in Range(output.predicted[1].uris) :
                 uri \in Range(output.track.uris)

-----------------------------------------------------------------------------
\* C25: for every local track that is the same song as some fetched remote
\* track of service S but does not hold that remote track's URI, after
\* add_changed_uris the local track holds exactly one URI on S, the remote
\* one, and its URIs on other services, its name, artists, albums and length
\* are unchanged; local tracks matching no remote track are unchanged.
OnService(uris, service) == SelectSeq(uris, LAMBDA u : u.service = service)

OffService(uris, service) == SelectSeq(uris, LAMBDA u : u.service # service)

SameButUris(t1, t2) ==
    /\ t1.name = t2.name
    /\ t1.artists = t2.artists
    /\ t1.albums = t2.albums
    /\ t1.length = t2.length

\* the track after the call holds the URI of r as its only one on r's service
RepairedTo(before, after, r) ==
    /\ OnService(after.uris, r.uris[1].service) = <<r.uris[1]>>
    /\ OffService(after.uris, r.uris[1].service)
          = OffService(before.uris, r.uris[1].service)
    /\ SameButUris(before, after)

C25_UriRepair ==
    output.done =>
       \A i \in DOMAIN input.tracks :
          /\ \A r \in Range(input.remote_tracks) :
                (are_same(r, input.tracks[i])
                    /\ r.uris[1] \notin Range(input.tracks[i].uris))
                   => RepairedTo(input.tracks[i], output.tracks[i], r)
          /\ (\A r \in Range(input.remote_tracks) : ~are_same(r, input.tracks[i]))
                => output.tracks[i] = input.tracks[i]

\* the first fetched remote track that is the same song as the track
FirstMatch(track) ==
    SelectSeq(input.remote_tracks, LAMBDA r : are_same(r, track))[1]

\* C25 (amended): the repair follows the first fetched remote track that is
\* the same song: when the local track does not hold its URI it ends with
\* that URI as its only one on S and is otherwise unchanged; when it holds
\* it, or matches no remote track, it is unchanged.
C25_UriRepairToFirstMatch ==
    output.done =>
       \A i \in DOMAIN input.tracks :
          IF \E r \in Range(input.remote_tracks) : are_same(r, input.tracks[i])
          THEN IF FirstMatch(input.tracks[i]).uris[1] \notin Range(input.tracks[i].uris)
               THEN RepairedTo(input.tracks[i], output.tracks[i],
                               FirstMatch(input.tracks[i]))
               ELSE output.tracks[i] = input.tracks[i]
          ELSE output.tracks[i] = input.tracks[i]

\* a track that held another URI on the service was repaired
C25_Witness ==
    /\ output.done
    /\ \E i \in DOMAIN input.tracks :
          /\ OnService(input.tracks[i].uris, "ytm") # <<>>
          /\ output.tracks[i] # input.tracks[i]
          /\ Len(input.remote_tracks) = 2

-----------------------------------------------------------------------------
\* C26: after any sequence of pull_playlist and search_playlist calls on a
\* playlist no track has a URI both in its uris and in its bad_uris: a URI
\* moved to bad_uris by a pull is never put back into the same track's uris.
C26_QuarantineDisjoint ==
    \A p \in DOMAIN playlists :
       \A i \in DOMAIN playlists[p].tracks :
          Range(heap[playlists[p].tracks[i]].uris)
             \cap Range(heap[playlists[p].tracks[i]].bad_uris) = {}

-----------------------------------------------------------------------------
\* C27: pull_playlist and search_playlist never remove a Track from
\* playlist.tracks and never reorder the tracks: the old track list is a
\* prefix of the new one (same objects, same order), new tracks are only
\* appended at the end.  An object is an index of heap; that it is still
\* the same track shows in its name.
IsPrefix(a, b) == Len(a) <= Len(b) /\ SubSeq(b, 1, Len(a)) = a

C27_TracksOnlyAppended ==
    [][last'.op \in {"pull", "search"}
          => /\ DOMAIN playlists' = DOMAIN playlists
             /\ \A p \in DOMAIN playlists :
                   /\ IsPrefix(playlists[p].tracks, playlists'[p].tracks)
                   /\ \A i \in DOMAIN playlists[p].tracks :
                         heap'[playlists[p].tracks[i]].name.value
                            = heap[playlists[p].tracks[i]].name.value
             /\ Len(heap) <= Len(heap')]_vars

\* a pull appended a track behind a track that an earlier pull had put
\* into quarantine
C27_Witness ==
    /\ last.op = "pull"
    /\ Len(last.new_tracks) = 1
    /\ Len(playlists["headphones"].tracks) = 2
    /\ heap[playlists["headphones"].tracks[1]].bad_uris # <<>>

-----------------------------------------------------------------------------
\* C28: Track.merge only changes its receiver: a.merge(b) leaves b's name,
\* artists (values and aliases), albums (values and aliases), length and
\* uris exactly as they were before the call.
C28_MergeLeavesArgument ==
    called =>
       /\ other.name = other0.name
       /\ other.artists = other0.artists
       /\ other.albums = other0.albums
       /\ other.length = other0.length
       /\ other.uris = other0.uris

-----------------------------------------------------------------------------
\* C29: a job becomes FAILED only if its pull_playlist, push_playlist or
\* search_playlist call raised: under every interleaving of GUI.add_job with
\* the worker thread the except branch of _process_queue is entered only out
\* of the reconciliation call (its progress callback included), so a job
\* whose call returns normally ends SUCCESS.
C29_FailedOnlyIfCallRaised ==
    [][\A w \in DOMAIN workers :
          (workers'[w].pc = "except" /\ workers[w].pc # "except")
             => workers[w].pc \in {"progress", "call"}]_vars

\* C30: every job pushed with push_job eventually reaches SUCCESS or FAILED,
\* under weak fairness of the worker and with every call and callback
\* returning or raising; no pushed job stays PENDING forever, whatever
\* earlier jobs did.
C30_EveryJobFinishes ==
    \A i \in 1..MaxLiveJobs : (i \in DOMAIN jobs) ~> (i \in DOMAIN jobs /\ Terminal(i))

====
